---- MODULE Spec2Model ----
(***************************************************************************)
(* Client of the healthcare facility resource tracker: the session store   *)
(* (AuthContext.jsx), the HTTP client wrapper (axios.js), the route guard  *)
(* (ProtectedRoute), the route table (App) and the pages' request          *)
(* handlers, as a state machine over the browser's persistent storage, the *)
(* React state of the mounted components and the requests in flight.       *)
(***************************************************************************)
EXTENDS Integers, Sequences, FiniteSets, TLC

\* ------------------------------------------------------------------ bounds
\* largest expiry claim (seconds) a token carries
MaxExp == 1
\* number of clock steps Date.now() can advance
MaxTick == 2
\* longest allowedRoles list handed to the route guard
MaxAllowed == 2
\* longest facility list the dashboard is given, the example list apart
MaxFacilities == 2
\* number of fetches the dashboard starts
MaxFetches == 3
\* number of submissions a form sends
MaxSubmits == 2
\* report submissions sent in one run of the report page
MaxReports == 1

\* ------------------------------------------------------- optional values
\* null / undefined / a missing storage item is the empty sequence,
\* a present value x is the one-element sequence <<x>>
None == <<>>
Some(x) == <<x>>
Truthy(o) == o # None
Val(o) == o[1]

\* ------------------------------------------------------------------ time
\* decoded.exp * 1000: seconds to milliseconds
MsPerSec == 1000
\* granularity of the modelled clock: one second
TickMs == MsPerSec
Times == {k * TickMs : k \in 0..MaxTick}

\* ---------------------------------------------------------------- tokens
\* A bearer token is a string; its middle segment stands for the base64
\* JSON payload.  "opaque" has no second segment, "h.null.s" decodes to JSON
\* null, "h.{}.s" to an object without exp, "h.{exp:'soon'}.s" to an object
\* whose exp is no number, TokenWithExp(n) to {exp: n}.
TokenWithExp(n) == "h.{exp:" \o ToString(n) \o "}.s"
NumTokens == {TokenWithExp(n) : n \in 0..MaxExp}
Tokens == {"opaque", "h.null.s", "h.{}.s", "h.{exp:'soon'}.s"} \cup NumTokens

\* decodeToken: the payload, or null when split/atob/JSON.parse throws.
\* decoded is the truthiness of the result (null is falsy, an object truthy);
\* expKind/exp describe decoded.exp.
decodeToken(t) ==
    IF t = "opaque" \/ t = "h.null.s"
    THEN [decoded |-> FALSE, expKind |-> "absent", exp |-> 0]
    ELSE IF t = "h.{}.s"
    THEN [decoded |-> TRUE, expKind |-> "absent", exp |-> 0]
    ELSE IF t = "h.{exp:'soon'}.s"
    THEN [decoded |-> TRUE, expKind |-> "string", exp |-> 0]
    ELSE [decoded |-> TRUE, expKind |-> "number",
          exp |-> CHOOSE n \in 0..MaxExp : TokenWithExp(n) = t]

\* decoded.exp * 1000 > Date.now(): undefined and 'soon' multiply to NaN,
\* and every comparison with NaN is false
ExpAfter(d, t) == d.expKind = "number" /\ d.exp * MsPerSec > t
\* decoded.exp * 1000 < Date.now()
ExpBefore(d, t) == d.expKind = "number" /\ d.exp * MsPerSec < t
\* !decoded.exp: undefined and 0 are falsy, a non-empty string is truthy
ExpFalsy(d) == d.expKind = "absent" \/ (d.expKind = "number" /\ d.exp = 0)

\* an isTokenExpired without the !decoded.exp test
isTokenExpired_noAbsentTest(tok, t) ==
    IF ~Truthy(tok) THEN TRUE
    ELSE LET decoded == decodeToken(Val(tok))
         IN  IF ~decoded.decoded THEN TRUE
             ELSE ExpBefore(decoded, t)

\* isTokenExpired, on the in-memory token tok at time t
isTokenExpired(tok, t) ==
    IF ~Truthy(tok) THEN TRUE
    ELSE LET decoded == decodeToken(Val(tok))
         IN  IF ~decoded.decoded \/ ExpFalsy(decoded) THEN TRUE
             ELSE ExpBefore(decoded, t)

\* isAuthenticated: !!token && !!user && !!role
isAuthenticated(tok, usr, rl) == Truthy(tok) /\ Truthy(usr) /\ Truthy(rl)

\* ----------------------------------------------------------------- users
Emails == {"amy@h.org"}
FacilityIds == {"null", "7"}
UserObjs == [email : Emails, facility_id : FacilityIds]
\* JSON.stringify / JSON.parse of the user record kept in storage
JSONstringify(u) ==
    "{email:" \o u.email \o ",facility_id:" \o u.facility_id \o "}"
JSONparse(s) == CHOOSE u \in UserObjs : JSONstringify(u) = s

\* ----------------------------------------------------------------- roles
\* role labels the backend answers with; the guard upper-cases them
RoleNames == {"ADMIN", "REPORTER", "MONITOR"}
RoleValues == RoleNames \cup {"reporter", "GUEST"}
toUpperCase(r) == IF r = "reporter" THEN "REPORTER" ELSE r
\* role?.toUpperCase(): undefined when role is null
UpperOpt(rl) == IF Truthy(rl) THEN Some(toUpperCase(Val(rl))) ELSE None


\* ----------------------------------------------------------- route guard
Navigate(to) == [kind |-> "navigate", arg |-> to]
Page(name) == [kind |-> "page", arg |-> name]
LoadingPlaceholder == [kind |-> "loading", arg |-> ""]
Children == [kind |-> "children", arg |-> ""]

\* allowedRoles.includes(x), x possibly undefined
includes(list, x) == \E i \in 1..Len(list) : Some(list[i]) = x

\* a switch whose REPORTER case names the wrong page
RoleSwitch_reporterToAdmin(up, dflt) ==
    IF up = Some("ADMIN") THEN "/admin/facilities"
    ELSE IF up = Some("REPORTER") THEN "/admin/facilities"
    ELSE IF up = Some("MONITOR") THEN "/dashboard"
    ELSE dflt

\* switch (role?.toUpperCase()) of the guard, the home redirect and the
\* login page; dflt is the default branch
RoleSwitch(up, dflt) ==
    IF up = Some("ADMIN") THEN "/admin/facilities"
    ELSE IF up = Some("REPORTER") THEN "/report"
    ELSE IF up = Some("MONITOR") THEN "/dashboard"
    ELSE dflt

\* a guard that tests the role list before the session
ProtectedRoute_listFirst(ld, tok, usr, rl, allowed) ==
    IF ld THEN LoadingPlaceholder
    ELSE IF Len(allowed) = 0 THEN Children
    ELSE IF ~isAuthenticated(tok, usr, rl) THEN Navigate("/login")
    ELSE IF ~includes(allowed, UpperOpt(rl))
    THEN Navigate(RoleSwitch(UpperOpt(rl), "/login"))
    ELSE Children

ProtectedRoute_authFirst(ld, tok, usr, rl, allowed) ==
    IF ~isAuthenticated(tok, usr, rl) THEN Navigate("/login")
    ELSE IF ld THEN LoadingPlaceholder
    ELSE IF Len(allowed) > 0 /\ ~includes(allowed, UpperOpt(rl))
    THEN Navigate(RoleSwitch(UpperOpt(rl), "/login"))
    ELSE Children

\* ProtectedRoute({children, allowedRoles}) under the context values
ProtectedRoute(ld, tok, usr, rl, allowed) ==
    IF ld THEN LoadingPlaceholder
    ELSE IF ~isAuthenticated(tok, usr, rl) THEN Navigate("/login")
    ELSE IF Len(allowed) > 0 /\ ~includes(allowed, UpperOpt(rl))
    THEN Navigate(RoleSwitch(UpperOpt(rl), "/login"))
    ELSE Children

\* HomeRedirect: no loading check
HomeRedirect(tok, usr, rl) ==
    IF ~isAuthenticated(tok, usr, rl) THEN Navigate("/login")
    ELSE Navigate(RoleSwitch(UpperOpt(rl), "/login"))

\* ------------------------------------------------------------ route table
ProtectedPaths == {"/admin/facilities", "/admin/users", "/report", "/dashboard"}
Paths == {"/login", "/", "/nowhere"} \cup ProtectedPaths
\* a route table that opens the users page to reporters
RouteAllowed_usersOpen(path) ==
    IF path = "/report" \/ path = "/admin/users" THEN <<"REPORTER", "ADMIN">>
    ELSE IF path = "/dashboard" THEN <<"MONITOR", "ADMIN">>
    ELSE <<"ADMIN">>

\* allowedRoles of the configured routes
RouteAllowed(path) ==
    IF path = "/report" THEN <<"REPORTER", "ADMIN">>
    ELSE IF path = "/dashboard" THEN <<"MONITOR", "ADMIN">>
    ELSE <<"ADMIN">>
RoutePage(path) ==
    IF path = "/admin/facilities" THEN "Facilities"
    ELSE IF path = "/admin/users" THEN "Users"
    ELSE IF path = "/report" THEN "ReportForm"
    ELSE "Dashboard"

\* <Routes>: the element rendered at path under the context values
Element(path, ld, tok, usr, rl) ==
    IF path = "/login" THEN Page("Login")
    ELSE IF path = "/" THEN HomeRedirect(tok, usr, rl)
    ELSE IF path \in ProtectedPaths
    THEN LET g == ProtectedRoute(ld, tok, usr, rl, RouteAllowed(path))
         IN  IF g = Children THEN Page(RoutePage(path)) ELSE g
    ELSE Navigate("/")

\* links the Navbar of an authenticated page offers
NavbarLinks(rl) ==
    {"/"} \cup
    (IF UpperOpt(rl) = Some("ADMIN")
     THEN {"/admin/facilities", "/admin/users", "/dashboard"}
     ELSE IF UpperOpt(rl) = Some("REPORTER") THEN {"/report"}
     ELSE IF UpperOpt(rl) = Some("MONITOR") THEN {"/dashboard"}
     ELSE {})

AllowedLists == UNION {[1..n -> RoleNames] : n \in 0..MaxAllowed}

\* --------------------------------------------------------------- storage
NoStorage == [access_token |-> None, user |-> None, role |-> None]

\* login(): the three localStorage.setItem calls
loginStorage(accessToken, userData, userRole) ==
    [access_token |-> Some(accessToken),
     user |-> Some(JSONstringify(userData)),
     role |-> Some(userRole)]

\* a logout() that forgets the role item
logoutStorage_keepsRole(store) ==
    [store EXCEPT !.access_token = None, !.user = None]

\* logout(): the three localStorage.removeItem calls
logoutStorage(store) ==
    [store EXCEPT !.access_token = None, !.user = None, !.role = None]

\* response interceptor, error branch: the removeItem calls on a 401
interceptorStorage(store, status) ==
    IF status = 401
    THEN [store EXCEPT !.access_token = None, !.user = None]
    ELSE store

\* response interceptor, error branch: window.location.href on a 401
interceptorHref(pending, status) ==
    IF status = 401 THEN Some("/login") ELSE pending

\* response interceptor, error branch: return Promise.reject(error), so the
\* caller's await throws and its catch block runs
interceptorRejects(status) == TRUE

\* init effect: storedToken && storedUser && storedRole
AllStored(store) ==
    Truthy(store.access_token) /\ Truthy(store.user) /\ Truthy(store.role)

\* an init effect that accepts any decodable token
StoredTokenFresh_ignoresExp(store, t) ==
    decodeToken(Val(store.access_token)).decoded

\* init effect: decoded && decoded.exp * 1000 > Date.now()
StoredTokenFresh(store, t) ==
    LET decoded == decodeToken(Val(store.access_token))
    IN  decoded.decoded /\ ExpAfter(decoded, t)

\* ------------------------------------------------------------- responses
InvalidCredentials == "Invalid email or password"
ServerMessages == {InvalidCredentials, "Account locked"}
NetworkMessages == {"Network Error", "timeout of 10000ms exceeded"}

\* an error as axios hands it to the interceptor: status 0 stands for no
\* response at all (error.response undefined); error/errors are the fields
\* of error.response.data, message is error.message
ErrorBodies ==
    {[error |-> Some(m), errors |-> FALSE] : m \in ServerMessages}
    \cup {[error |-> None, errors |-> TRUE], [error |-> None, errors |-> FALSE]}
HttpErrors ==
    {[status |-> s, error |-> b.error, errors |-> b.errors, message |-> "Request failed"]
        : s \in {401, 500}, b \in ErrorBodies}
NoResponseErrors ==
    {[status |-> 0, error |-> None, errors |-> FALSE, message |-> m]
        : m \in NetworkMessages}
Failures == HttpErrors \cup NoResponseErrors
\* response.data of a successful POST /auth/login
LoginData == [access_token : Tokens, role : RoleValues, facility_id : FacilityIds]

\* ------------------------------------------------------------ page state
NoErrors == [api |-> None, fields |-> "none"]
CannotConnect == "Cannot connect to server. Please check if the backend is running."
Unexpected == "An unexpected error occurred. Please try again."

\* Login.handleSubmit, catch block: the errors state it sets
loginCatch(err) ==
    IF Truthy(err.error) THEN [api |-> err.error, fields |-> "none"]
    ELSE IF err.errors THEN [api |-> None, fields |-> "server"]
    ELSE IF err.status = 401 THEN [api |-> Some(InvalidCredentials), fields |-> "none"]
    ELSE IF err.message = "Network Error" THEN [api |-> Some(CannotConnect), fields |-> "none"]
    ELSE [api |-> Some(Unexpected), fields |-> "none"]

\* fetchFacilities / fetchDashboard, catch block: the banner it sets
fetchCatch(kind) ==
    IF kind = "facilities" THEN Some("Failed to load facilities. Please try again.")
    ELSE Some("Failed to load dashboard. Please try again.")

FetchKind(page) == IF page = "Facilities" THEN "facilities" ELSE "dashboard"
FetchPages == {"Facilities", "Dashboard"}


\* ------------------------------------------------------------------ state
VARIABLES
    now,          \* Date.now(), milliseconds
    ls,           \* localStorage: access_token, user, role
    token,        \* AuthProvider state
    user,
    role,
    loading,
    location,     \* the router's current path
    href,         \* a pending window.location.href assignment
    inflight,     \* requests awaiting their response
    errors,       \* Login page: errors state
    banner,       \* Facilities / Dashboard page: error state
    fetched,      \* the mounted page's mount effect has run
    ev,           \* the last handler that ran and what it did
    allowedRoles, \* prop of a guard rendered on its own
    guardOut,     \* what that guard rendered
    routeOut,     \* what the route table rendered at location
    expiredOut,   \* what isTokenExpired() returned
    sent,         \* the last request handed to the network, as configured
    facilities,   \* Dashboard state
    selectedCountry,
    selectedCity,
    dashLoading,
    dashError,
    lastRefresh,
    dashMounted,  \* the Dashboard component is mounted
    dashInterval, \* its setInterval timer is running
    dashPending,  \* dashboard requests awaiting their response
    dashIssued,   \* number of dashboard requests started so far
    okLog,        \* the successful responses the mounted page has handled
    formKind,     \* which of the four forms is looked at
    formMounted,  \* its page is rendered
    formData,
    formErrors,   \* errors (Login) / formErrors: message per field
    formError,    \* errors.api (Login) / error: the error banner
    formSuccess,  \* success: the success banner
    submitting,   \* loading (Login) / submitting
    showForm,
    formPending,  \* submissions awaiting their response
    formSent,     \* number of submissions sent so far
    formEv,       \* the last form handler that ran
    dismissIn,    \* delay left on the page's auto-dismiss timer, if one runs
    reportLoading, \* loading of the report page
    typed         \* the fields the reporter changed since the last
                  \* successful submission, with the last value typed

vars == <<now, ls, token, user, role, loading, location, href, inflight,
          errors, banner, fetched, ev, allowedRoles, guardOut, routeOut,
          expiredOut, sent, facilities, selectedCountry, selectedCity,
          dashLoading, dashError, lastRefresh, dashMounted, dashInterval,
          dashPending, dashIssued, okLog, formKind, formMounted, formData,
          formErrors, formError, formSuccess, submitting, showForm,
          formPending, formSent, formEv, dismissIn, reportLoading, typed>>

\* the variables of the components studied on their own
\* the variables of the Dashboard page
dashboard == <<facilities, selectedCountry, selectedCity, dashLoading,
               dashError, lastRefresh, dashMounted, dashInterval, dashPending,
               dashIssued, okLog>>
\* the part of them that the filter controls leave alone
fetching == <<dashLoading, dashError, lastRefresh, dashMounted, dashInterval,
              dashPending, dashIssued, okLog>>
\* the variables of a form and its page
forms == <<formKind, formMounted, formData, formErrors, formError,
           formSuccess, submitting, showForm, formPending, formSent,
           formEv, dismissIn, reportLoading, typed>>
\* the state only the report page has
report == <<reportLoading, typed>>
\* no report page is rendered
ReportIdle == reportLoading = FALSE /\ typed = <<>>
pages == <<sent, dashboard, forms>>
probe == <<allowedRoles, guardOut, routeOut, expiredOut, pages>>

\* the variables of the running app
app == <<now, ls, token, user, role, loading, location, href, inflight,
         errors, banner, fetched, ev>>

\* no form is rendered
FormsIdle ==
    /\ formKind = "login" /\ formMounted = FALSE
    /\ formData = <<>> /\ formErrors = <<>>
    /\ formError = None /\ formSuccess = None
    /\ submitting = FALSE /\ showForm = FALSE
    /\ formPending = {} /\ formSent = 0
    /\ formEv = [op |-> "none", err |-> None, live |-> FALSE]
    /\ dismissIn = None
    /\ ReportIdle

\* the Dashboard is not rendered
DashIdle ==
    /\ facilities = <<>> /\ selectedCountry = "" /\ selectedCity = ""
    /\ dashLoading = TRUE /\ dashError = None /\ lastRefresh = None
    /\ dashMounted = FALSE /\ dashInterval = FALSE
    /\ dashPending = {} /\ dashIssued = 0 /\ okLog = <<>>

PagesIdle == sent = None /\ DashIdle /\ FormsIdle

\* what the app renders in the current state
View == Element(location, loading, token, user, role)

Event(op, kind, status, err, live, nav, call, caught) ==
    [op |-> op, kind |-> kind, status |-> status, err |-> err, live |-> live,
     nav |-> nav, call |-> call, caught |-> caught]
Quiet(op) == Event(op, "", 0, None, FALSE, "none", "none", FALSE)

Stale(reqs) == {[r EXCEPT !.live = FALSE] : r \in reqs}

\* React commits the handler's state updates and re-renders: a page that is
\* no longer rendered unmounts, a newly rendered one mounts with the initial
\* values of its useState calls, and the requests of an unmounted page can
\* no longer set its state.
Commit(e, b, f, reqs) ==
    IF Element(location', loading', token', user', role') = View
    THEN errors' = e /\ banner' = b /\ fetched' = f /\ inflight' = reqs
    ELSE errors' = NoErrors /\ banner' = None /\ fetched' = FALSE
         /\ inflight' = Stale(reqs)

\* AuthProvider and the page are constructed: useState initial values
Mount(path) ==
    /\ token = None /\ user = None /\ role = None /\ loading = TRUE
    /\ location = path
    /\ href = None
    /\ inflight = {}
    /\ errors = NoErrors /\ banner = None /\ fetched = FALSE

Init ==
    /\ now = 0
    /\ ls = NoStorage
    /\ \E path \in Paths : Mount(path)
    /\ ev = Quiet("open")
    /\ allowedRoles = <<>> /\ guardOut = None /\ routeOut = None
    /\ expiredOut = None
    /\ PagesIdle

\* ---------------------------------------------------------------- actions
\* time passes
Tick ==
    /\ now + TickMs \in Times
    /\ now' = now + TickMs
    /\ UNCHANGED <<ls, token, user, role, loading, location, href, inflight,
                   errors, banner, fetched, probe>>
    /\ ev' = Quiet("tick")

\* the browser loads the app at path: a fresh document, storage kept
PageLoad(path) ==
    /\ token' = None /\ user' = None /\ role' = None /\ loading' = TRUE
    /\ location' = path
    /\ href' = None
    /\ inflight' = {}
    /\ errors' = NoErrors /\ banner' = None /\ fetched' = FALSE
    /\ UNCHANGED <<now, ls, probe>>

\* the user opens or reloads a URL of the app
UserOpen ==
    /\ \E path \in Paths : PageLoad(path)
    /\ ev' = Quiet("open")

\* the navigation a window.location.href assignment started completes
Unload ==
    /\ Truthy(href)
    /\ PageLoad(Val(href))
    /\ ev' = Quiet("unload")

\* The effects of the first commit run in one pass, a child's before its
\* parent's: first the effect of a <Navigate> the first render produced
\* (under loading = true and a null session), then AuthProvider's mount
\* effect.  No event handler runs before them.
InitEffect ==
    /\ loading
    /\ location' = IF View.kind = "navigate" THEN View.arg ELSE location
    /\ IF AllStored(ls)
       THEN IF StoredTokenFresh(ls, now)
            THEN /\ token' = ls.access_token
                 /\ user' = Some(JSONparse(Val(ls.user)))
                 /\ role' = ls.role
                 /\ ls' = ls
                 /\ ev' = Quiet("initEffect")
            ELSE /\ token' = None /\ user' = None /\ role' = None
                 /\ ls' = logoutStorage(ls)
                 /\ ev' = Event("initEffect", "", 0, None, FALSE, "none", "logout", FALSE)
       ELSE /\ UNCHANGED <<token, user, role, ls>>
            /\ ev' = Quiet("initEffect")
    /\ loading' = FALSE
    /\ UNCHANGED <<now, href, probe>>
    /\ Commit(errors, banner, fetched, inflight)

\* the effect of a <Navigate to=... replace /> rendered after the first commit
Redirect ==
    /\ ~loading
    /\ View.kind = "navigate"
    /\ location' = View.arg
    /\ UNCHANGED <<now, ls, token, user, role, loading, href, probe>>
    /\ Commit(errors, banner, fetched, inflight)
    /\ ev' = Event("redirect", "", 0, None, FALSE, "router", "none", FALSE)

\* a click on a Navbar link
NavbarLink ==
    /\ View.kind = "page" /\ View.arg # "Login"
    /\ \E path \in NavbarLinks(role) : location' = path
    /\ UNCHANGED <<now, ls, token, user, role, loading, href, probe>>
    /\ Commit(errors, banner, fetched, inflight)
    /\ ev' = Event("link", "", 0, None, FALSE, "router", "none", FALSE)

\* Navbar.handleLogout: logout(); navigate('/login')
NavbarLogout ==
    /\ View.kind = "page" /\ View.arg # "Login"
    /\ token' = None /\ user' = None /\ role' = None
    /\ ls' = logoutStorage(ls)
    /\ location' = "/login"
    /\ UNCHANGED <<now, loading, href, probe>>
    /\ Commit(errors, banner, fetched, inflight)
    /\ ev' = Event("handleLogout", "", 0, None, FALSE, "router", "logout", FALSE)


\* the full page navigation the response interceptor starts, if any
InterceptorNav(status) ==
    IF interceptorHref(None, status) # None THEN "full" ELSE "none"

\* Login.handleSubmit up to the await: validation, then POST /auth/login.
\* The submit button is disabled while the page's request is in flight.
LoginSubmit ==
    /\ ~loading
    /\ View = Page("Login")
    /\ [kind |-> "login", live |-> TRUE] \notin inflight
    /\ \E valid \in BOOLEAN :
         IF valid
         THEN /\ errors' = NoErrors
              /\ inflight' = inflight \cup {[kind |-> "login", live |-> TRUE]}
         ELSE /\ errors' = [api |-> None, fields |-> "local"]
              /\ inflight' = inflight
    /\ UNCHANGED <<now, ls, token, user, role, loading, location, href,
                   banner, fetched, probe>>
    /\ ev' = Quiet("handleSubmit")

\* Login.handleSubmit after the await, success: login(), then navigate()
LoginRespondOK ==
    \E r \in inflight, data \in LoginData, email \in Emails :
      /\ r.kind = "login"
      /\ token' = Some(data.access_token)
      /\ user' = Some([email |-> email, facility_id |-> data.facility_id])
      /\ role' = Some(data.role)
      /\ ls' = loginStorage(data.access_token,
                            [email |-> email, facility_id |-> data.facility_id],
                            data.role)
      /\ location' = RoleSwitch(Some(toUpperCase(data.role)), "/")
      /\ UNCHANGED <<now, loading, href, probe>>
      /\ Commit(errors, banner, fetched, inflight \ {r})
      /\ ev' = Event("loginRespond", "login", 200, None, r.live, "router",
                     "login", FALSE)

\* Login.handleSubmit after the await, failure: the response interceptor's
\* error branch, then the page's catch block
LoginRespondFail ==
    \E r \in inflight, err \in Failures :
      /\ r.kind = "login"
      /\ ls' = interceptorStorage(ls, err.status)
      /\ href' = interceptorHref(href, err.status)
      /\ errors' = IF r.live /\ interceptorRejects(err.status)
                   THEN loginCatch(err) ELSE errors
      /\ inflight' = inflight \ {r}
      /\ UNCHANGED <<now, token, user, role, loading, location, banner,
                     fetched, probe>>
      /\ ev' = Event("loginRespond", "login", err.status, err.error, r.live,
                     InterceptorNav(err.status), "none",
                     interceptorRejects(err.status))

\* mount effect of the Facilities and Dashboard pages: the first fetch
MountFetch ==
    /\ View.kind = "page" /\ View.arg \in FetchPages
    /\ ~fetched
    /\ fetched' = TRUE
    /\ inflight' = inflight \cup {[kind |-> FetchKind(View.arg), live |-> TRUE]}
    /\ UNCHANGED <<now, ls, token, user, role, loading, location, href,
                   errors, banner, probe>>
    /\ ev' = Quiet("mountFetch")

\* the Dashboard's 30 s interval fires
IntervalFetch ==
    /\ View = Page("Dashboard")
    /\ fetched
    /\ inflight' = inflight \cup {[kind |-> "dashboard", live |-> TRUE]}
    /\ UNCHANGED <<now, ls, token, user, role, loading, location, href,
                   errors, banner, fetched, probe>>
    /\ ev' = Quiet("intervalFetch")

\* fetchFacilities / fetchDashboard after the await, success
FetchRespondOK ==
    \E r \in inflight :
      /\ r.kind # "login"
      /\ banner' = IF r.live THEN None ELSE banner
      /\ inflight' = inflight \ {r}
      /\ UNCHANGED <<now, ls, token, user, role, loading, location, href,
                     errors, fetched, probe>>
      /\ ev' = Event("fetchRespond", r.kind, 200, None, r.live, "none",
                     "none", FALSE)

\* fetchFacilities / fetchDashboard after the await, failure: the response
\* interceptor's error branch, then the page's catch block
FetchRespondFail ==
    \E r \in inflight, err \in Failures :
      /\ r.kind # "login"
      /\ ls' = interceptorStorage(ls, err.status)
      /\ href' = interceptorHref(href, err.status)
      /\ banner' = IF r.live /\ interceptorRejects(err.status)
                   THEN fetchCatch(r.kind) ELSE banner
      /\ inflight' = inflight \ {r}
      /\ UNCHANGED <<now, token, user, role, loading, location, errors,
                     fetched, probe>>
      /\ ev' = Event("fetchRespond", r.kind, err.status, None, r.live,
                     InterceptorNav(err.status), "none",
                     interceptorRejects(err.status))

Next ==
    \/ Tick
    \/ UserOpen
    \/ Unload
    \/ InitEffect
    \/ Redirect
    \/ NavbarLink
    \/ NavbarLogout
    \/ LoginSubmit
    \/ LoginRespondOK
    \/ LoginRespondFail
    \/ MountFetch
    \/ IntervalFetch
    \/ FetchRespondOK
    \/ FetchRespondFail

Spec == Init /\ [][Next]_vars

\* ------------------------------------------------- the guard on any input
\* The guard and the route table are functions of the context values and
\* the props: every combination of them is rendered.
GuardInit ==
    /\ now = 0
    /\ ls = NoStorage
    /\ token \in {None} \cup {Some(t) : t \in Tokens}
    /\ user \in {None} \cup {Some(u) : u \in UserObjs}
    /\ role \in {None} \cup {Some(r) : r \in RoleValues}
    /\ loading \in BOOLEAN
    /\ location \in Paths
    /\ href = None
    /\ inflight = {}
    /\ errors = NoErrors /\ banner = None /\ fetched = FALSE
    /\ ev = Quiet("props")
    /\ allowedRoles \in AllowedLists
    /\ guardOut = None /\ routeOut = None /\ expiredOut = None
    /\ PagesIdle

\* <ProtectedRoute allowedRoles={allowedRoles}> renders
GuardRender ==
    /\ guardOut' = Some(ProtectedRoute(loading, token, user, role, allowedRoles))
    /\ UNCHANGED <<now, ls, token, user, role, loading, location, href,
                   inflight, errors, banner, fetched, ev, allowedRoles,
                   routeOut, expiredOut, pages>>

\* <Routes> renders the element of the current location
RouteRender ==
    /\ routeOut' = Some(Element(location, loading, token, user, role))
    /\ UNCHANGED <<now, ls, token, user, role, loading, location, href,
                   inflight, errors, banner, fetched, ev, allowedRoles,
                   guardOut, expiredOut, pages>>

GuardNext == GuardRender \/ RouteRender

GuardSpec == GuardInit /\ [][GuardNext]_vars

\* ------------------------------------------- isTokenExpired on any input
ExpiryInit ==
    /\ now \in Times
    /\ ls = NoStorage
    /\ token \in {None} \cup {Some(t) : t \in Tokens}
    /\ user \in {None} \cup {Some(u) : u \in UserObjs}
    /\ role \in {None} \cup {Some(r) : r \in RoleValues}
    /\ loading = FALSE
    /\ location = "/login"
    /\ href = None
    /\ inflight = {}
    /\ errors = NoErrors /\ banner = None /\ fetched = FALSE
    /\ ev = Quiet("props")
    /\ allowedRoles = <<>>
    /\ guardOut = None /\ routeOut = None /\ expiredOut = None
    /\ PagesIdle

\* a component calls isTokenExpired()
ExpiryCheck ==
    /\ expiredOut' = Some(isTokenExpired(token, now))
    /\ UNCHANGED <<now, ls, token, user, role, loading, location, href,
                   inflight, errors, banner, fetched, ev, allowedRoles,
                   guardOut, routeOut, pages>>

ExpiryNext == ExpiryCheck

ExpirySpec == ExpiryInit /\ [][ExpiryNext]_vars


\* --------------------------------------- the request interceptor on its own
\* the calls the pages make through the shared client
Requests ==
    { [method |-> "post", url |-> "/auth/login"],
      [method |-> "get",  url |-> "/monitor/dashboard"],
      [method |-> "get",  url |-> "/admin/facilities"],
      [method |-> "post", url |-> "/admin/users"],
      [method |-> "post", url |-> "/reporter/reports"] }

\* axios.create({baseURL, headers, timeout}): the configuration a call
\* starts from
requestConfig(req) ==
    [method |-> req.method, url |-> req.url,
     headers |-> [ContentType |-> Some("application/json"),
                  Authorization |-> None]]

\* a request interceptor that sends the stored value as it is
requestInterceptor_bare(config, store) ==
    IF Truthy(store.access_token)
    THEN [config EXCEPT !.headers.Authorization = store.access_token]
    ELSE config

\* request interceptor: localStorage.getItem('access_token'), and the
\* header `Bearer ${token}` when it is truthy
requestInterceptor(config, store) ==
    IF Truthy(store.access_token)
    THEN [config EXCEPT !.headers.Authorization =
                            Some("Bearer " \o Val(store.access_token))]
    ELSE config

RequestInit ==
    /\ now = 0
    /\ ls = NoStorage
    /\ Mount("/login")
    /\ ev = Quiet("open")
    /\ allowedRoles = <<>> /\ guardOut = None /\ routeOut = None
    /\ expiredOut = None
    /\ PagesIdle

\* login() persists a session
RequestLogin ==
    /\ \E d \in LoginData, u \in UserObjs :
          ls' = loginStorage(d.access_token, u, d.role)
    /\ UNCHANGED <<now, token, user, role, loading, location, href, inflight,
                   errors, banner, fetched, ev, probe>>

\* logout() clears it
RequestLogout ==
    /\ ls' = logoutStorage(ls)
    /\ UNCHANGED <<now, token, user, role, loading, location, href, inflight,
                   errors, banner, fetched, ev, probe>>

\* the response interceptor sees a 401
Request401 ==
    /\ ls' = interceptorStorage(ls, 401)
    /\ UNCHANGED <<now, token, user, role, loading, location, href, inflight,
                   errors, banner, fetched, ev, probe>>

\* a page calls api.get / api.post: the request interceptor runs and the
\* request leaves; stored records what the storage held at that moment
RequestSend ==
    /\ \E req \in Requests :
          sent' = Some([config |-> requestInterceptor(requestConfig(req), ls),
                        stored |-> ls.access_token])
    /\ UNCHANGED <<app, allowedRoles, guardOut, routeOut, expiredOut,
                   dashboard, forms>>

RequestNext == RequestLogin \/ RequestLogout \/ Request401 \/ RequestSend

RequestSpec == RequestInit /\ [][RequestNext]_vars

\* ------------------------------------------------- Dashboard: derived data
\* GET /monitor/dashboard: the fields of a facility record that the page
\* reads.  last_update is null or a timestamp; icu_beds_available is null or
\* a number; critical is the flag computed by the server.
Places == { [country |-> "Kenya",  city |-> "Nairobi"],
            [country |-> "Kenya",  city |-> "Mombasa"],
            [country |-> "Uganda", city |-> "Nairobi"] }
LastUpdates == {None, Some("2025-01-01T08:00:00Z")}
IcuValues == {None, Some(0), Some(4)}
FacilityRecords ==
    { [country |-> p.country, city |-> p.city, critical |-> c,
       last_update |-> u, icu_beds_available |-> b] :
         p \in Places, c \in BOOLEAN, u \in LastUpdates, b \in IcuValues }

Reported(place, beds) ==
    [country |-> place.country, city |-> place.city, critical |-> beds = 0,
     last_update |-> Some("2025-01-01T08:00:00Z"),
     icu_beds_available |-> Some(beds)]
Unreported(place) ==
    [country |-> place.country, city |-> place.city, critical |-> FALSE,
     last_update |-> None, icu_beds_available |-> None]
Nairobi == [country |-> "Kenya", city |-> "Nairobi"]
Mombasa == [country |-> "Kenya", city |-> "Mombasa"]
\* a payload with two critical, one unreported and three active facilities
ExampleList ==
    << Reported(Nairobi, 0), Reported(Mombasa, 4), Unreported(Nairobi),
       Reported(Mombasa, 0), Reported(Nairobi, 4), Reported(Mombasa, 4) >>

\* a facility whose report carries all three resources
Resources(place, beds, ventilators, staff) ==
    [country |-> place.country, city |-> place.city, critical |-> beds = 0,
     last_update |-> Some("2025-01-01T08:00:00Z"),
     icu_beds_available |-> Some(beds),
     ventilators_available |-> Some(ventilators),
     staff_on_duty |-> Some(staff)]
\* a payload with seven facilities, six of them in Kenya, one of them with
\* its ventilators null
ResourceList ==
    << Resources(Nairobi, 4, 2, 30), Resources(Mombasa, 0, 0, 12),
       Resources([country |-> "Uganda", city |-> "Nairobi"], 9, 5, 40),
       [Resources(Nairobi, 6, 1, 25) EXCEPT !.ventilators_available = None],
       Unreported(Mombasa), Resources(Mombasa, 3, 7, 0),
       Resources(Nairobi, 1, 1, 1) >>

\* response.data.facilities
FacilityLists ==
    UNION {[1..n -> FacilityRecords] : n \in 0..MaxFacilities}
        \cup {ExampleList, ResourceList}

\* uniqueCountries: the options of the country select (the page sorts them
\* for display)
uniqueCountries(list) == {list[i].country : i \in 1..Len(list)}

\* uniqueCities: the options of the city select
uniqueCities(list, country) ==
    LET shown == IF country # ""
                 THEN SelectSeq(list, LAMBDA f : f.country = country)
                 ELSE list
    IN  {shown[i].city : i \in 1..Len(shown)}

\* a filter that forgets the country once a city is selected
filteredFacilities_cityOnly(list, country, city) ==
    IF city # "" THEN SelectSeq(list, LAMBDA f : f.city = city)
    ELSE IF country # "" THEN SelectSeq(list, LAMBDA f : f.country = country)
    ELSE list

\* filteredFacilities
filteredFacilities(list, country, city) ==
    LET byCountry == IF country # ""
                     THEN SelectSeq(list, LAMBDA f : f.country = country)
                     ELSE list
    IN  IF city # ""
        THEN SelectSeq(byCountry, LAMBDA f : f.city = city)
        ELSE byCountry

\* f[name] || 0: a field the record lacks is undefined, and undefined, null
\* and 0 all give 0
orZero(f, name) ==
    IF name \in DOMAIN f /\ f[name] # None THEN Val(f[name]) ELSE 0

\* one entry of chartData.resourceData and of chartData.radarData
resourceEntry(f) ==
    [icuBeds     |-> orZero(f, "icu_beds_available"),
     ventilators |-> orZero(f, "ventilators_available"),
     staff       |-> orZero(f, "staff_on_duty")]

\* Array.prototype.slice(0, end)
slice(list, end) ==
    SubSeq(list, 1, IF Len(list) < end THEN Len(list) ELSE end)

\* chartData.resourceData: filteredFacilities.map(...)
resourceData(list) == [i \in 1..Len(list) |-> resourceEntry(list[i])]

\* a radar set of the last five entries
radarData_lastFive(list) ==
    LET n == Len(list)
        shown == SubSeq(list, IF n > 5 THEN n - 4 ELSE 1, n)
    IN  [i \in 1..Len(shown) |-> resourceEntry(shown[i])]

\* chartData.radarData: filteredFacilities.slice(0, 5).map(...)
radarData(list) ==
    LET shown == slice(list, 5)
    IN  [i \in 1..Len(shown) |-> resourceEntry(shown[i])]

\* hasActiveFilters
hasActiveFilters(country, city) == country # "" \/ city # ""

\* the four stats cards: Total Facilities, Critical Situations, No Data
\* Reported, Active Reports
statsCards(list) ==
    [total    |-> Len(list),
     critical |-> Len(SelectSeq(list, LAMBDA f : f.critical)),
     noData   |-> Len(SelectSeq(list, LAMBDA f : f.last_update = None)),
     active   |-> Len(SelectSeq(list, LAMBDA f : f.last_update # None))]

\* chartData: criticalCount, noDataCount, activeCount
statusCounts(list) ==
    [critical |-> Len(SelectSeq(list, LAMBDA f : f.critical)),
     noData   |-> Len(SelectSeq(list, LAMBDA f : f.last_update = None)),
     active   |-> Len(SelectSeq(list, LAMBDA f : f.last_update # None /\ ~f.critical))]

\* chartData.statusData: the slices of the status chart
statusData(list) ==
    LET n == statusCounts(list) IN
    { s \in { [name |-> "Critical", value |-> n.critical],
              [name |-> "No Data",  value |-> n.noData],
              [name |-> "Active",   value |-> n.active] } : s.value > 0 }

\* a row style that tests last_update first
getStatusColor_updateFirst(facility) ==
    IF facility.last_update = None THEN "yellow"
    ELSE IF facility.critical THEN "red"
    ELSE "plain"

\* getStatusColor: the style of the table row
getStatusColor(facility) ==
    IF facility.critical THEN "red"
    ELSE IF facility.last_update = None THEN "yellow"
    ELSE "plain"

\* getICUBedsBadge(icuBeds, isCritical)
getICUBedsBadge(icuBeds, isCritical) ==
    IF isCritical THEN "critical"
    ELSE IF icuBeds = None THEN "no data"
    ELSE "value"

\* exportToExcel: the Status column
exportStatus(f) ==
    IF f.critical THEN "CRITICAL"
    ELSE IF Truthy(f.last_update) THEN "Active"
    ELSE "No Data"

\* the app after a login as userRole, showing the page at path
Rendered(path, userRole) ==
    LET t == TokenWithExp(MaxExp)
        u == [email |-> "amy@h.org", facility_id |-> "null"]
    IN  /\ now = 0
        /\ ls = loginStorage(t, u, userRole)
        /\ token = Some(t) /\ user = Some(u) /\ role = Some(userRole)
        /\ loading = FALSE
        /\ location = path
        /\ href = None
        /\ inflight = {}
        /\ errors = NoErrors /\ banner = None /\ fetched = TRUE
        /\ ev = Quiet("open")

\* the list the page displays: filteredFacilities under the current state
Shown == filteredFacilities(facilities, selectedCountry, selectedCity)

\* the Dashboard page with a list loaded
DerivedInit ==
    /\ Rendered("/dashboard", "MONITOR")
    /\ allowedRoles = <<>> /\ guardOut = None /\ routeOut = None
    /\ expiredOut = None
    /\ sent = None
    /\ facilities \in FacilityLists
    /\ selectedCountry = "" /\ selectedCity = ""
    /\ dashLoading = FALSE /\ dashError = None /\ lastRefresh = Some(now)
    /\ dashMounted = TRUE /\ dashInterval = TRUE
    /\ dashPending = {} /\ dashIssued = 1 /\ okLog = <<>>
    /\ FormsIdle

\* a country select that keeps the selected city
CountryChange_keepsCity ==
    /\ \E value \in {""} \cup uniqueCountries(facilities) :
          selectedCountry' = value
    /\ UNCHANGED <<app, allowedRoles, guardOut, routeOut, expiredOut, sent, forms,
                   facilities, selectedCity, fetching>>

\* country select onChange: setSelectedCountry(value), setSelectedCity('')
CountryChange ==
    /\ \E value \in {""} \cup uniqueCountries(facilities) :
          selectedCountry' = value
    /\ selectedCity' = ""
    /\ UNCHANGED <<app, allowedRoles, guardOut, routeOut, expiredOut, sent, forms,
                   facilities, fetching>>

\* city select onChange: setSelectedCity(value)
CityChange ==
    /\ \E value \in {""} \cup uniqueCities(facilities, selectedCountry) :
          selectedCity' = value
    /\ UNCHANGED <<app, allowedRoles, guardOut, routeOut, expiredOut, sent, forms,
                   facilities, selectedCountry, fetching>>

\* clearFilters, behind the button shown while a filter is active
ClearFilters ==
    /\ hasActiveFilters(selectedCountry, selectedCity)
    /\ selectedCountry' = "" /\ selectedCity' = ""
    /\ UNCHANGED <<app, allowedRoles, guardOut, routeOut, expiredOut, sent, forms,
                   facilities, fetching>>

DerivedNext == CountryChange \/ CityChange \/ ClearFilters

DerivedSpec == DerivedInit /\ [][DerivedNext]_vars

\* --------------------------------------------- Dashboard: fetch and refresh
\* setInterval(..., 30000)
RefreshMs == 30000

\* response.data of GET /monitor/dashboard: the facilities field, when the
\* body has one
DashPayloads ==
    {None, Some(ExampleList), Some(<<Reported(Nairobi, 4)>>),
     Some(<<Unreported(Mombasa)>>)}

\* an api.get that aborts the requests already in flight
startFetch_cancelling(reqs, id) == {[id |-> id, live |-> TRUE]}

\* fetchDashboard, up to its await: one more request in flight
startFetch(reqs, id) == reqs \cup {[id |-> id, live |-> TRUE]}

\* an admin on the facilities page; the Dashboard is not mounted
DashInit ==
    /\ Rendered("/admin/facilities", "ADMIN")
    /\ allowedRoles = <<>> /\ guardOut = None /\ routeOut = None
    /\ expiredOut = None
    /\ PagesIdle

\* the Dashboard's state variables
dashState == <<facilities, selectedCountry, selectedCity, dashLoading,
               dashError, lastRefresh>>

\* the useState initial values
DashFresh ==
    /\ facilities' = <<>> /\ selectedCountry' = "" /\ selectedCity' = ""
    /\ dashLoading' = TRUE /\ dashError' = None /\ lastRefresh' = None

\* the Dashboard link: the page mounts and both effects run, fetchDashboard()
\* and setInterval
DashMount ==
    /\ ~dashMounted /\ dashIssued < MaxFetches
    /\ location' = "/dashboard"
    /\ dashMounted' = TRUE
    /\ DashFresh
    /\ dashPending' = startFetch(dashPending, dashIssued + 1)
    /\ dashIssued' = dashIssued + 1
    /\ dashInterval' = TRUE
    /\ okLog' = <<>>
    /\ UNCHANGED <<now, ls, token, user, role, loading, href, inflight,
                   errors, banner, fetched, ev, allowedRoles, guardOut,
                   routeOut, expiredOut, sent, forms>>

\* an unmount that leaves the timer running
DashUnmount_leavesTimer ==
    /\ dashMounted
    /\ location' = "/admin/facilities"
    /\ dashMounted' = FALSE
    /\ DashFresh
    /\ dashPending' = Stale(dashPending)
    /\ okLog' = <<>>
    /\ UNCHANGED <<now, ls, token, user, role, loading, href, inflight,
                   errors, banner, fetched, ev, allowedRoles, guardOut,
                   routeOut, expiredOut, sent, forms, dashIssued, dashInterval>>

\* another link: the page unmounts, the interval effect's cleanup runs
\* clearInterval, and the requests in flight can no longer set its state
DashUnmount ==
    /\ dashMounted
    /\ location' = "/admin/facilities"
    /\ dashMounted' = FALSE
    /\ dashInterval' = FALSE
    /\ DashFresh
    /\ dashPending' = Stale(dashPending)
    /\ okLog' = <<>>
    /\ UNCHANGED <<now, ls, token, user, role, loading, href, inflight,
                   errors, banner, fetched, ev, allowedRoles, guardOut,
                   routeOut, expiredOut, sent, forms, dashIssued>>

\* 30 s pass: a running interval fires and calls fetchDashboard()
DashElapse ==
    /\ now < MaxFetches * RefreshMs
    /\ now' = now + RefreshMs
    /\ IF dashInterval
       THEN /\ dashIssued < MaxFetches
            /\ dashPending' = startFetch(dashPending, dashIssued + 1)
            /\ dashIssued' = dashIssued + 1
       ELSE UNCHANGED <<dashPending, dashIssued>>
    /\ UNCHANGED <<ls, token, user, role, loading, location, href, inflight,
                   errors, banner, fetched, ev, allowedRoles, guardOut,
                   routeOut, expiredOut, sent, forms, dashState, dashMounted,
                   dashInterval, okLog>>

\* fetchDashboard after its await, try branch and finally; the model puts no
\* bound on how long a response takes
DashResolveOK ==
    /\ \E req \in dashPending, data \in DashPayloads :
          /\ dashPending' = dashPending \ {req}
          /\ IF req.live
             THEN /\ facilities' = (IF Truthy(data) THEN Val(data) ELSE <<>>)
                  /\ lastRefresh' = Some(now)
                  /\ dashError' = None
                  /\ dashLoading' = FALSE
                  /\ okLog' = Append(okLog, [id |-> req.id, data |-> data])
             ELSE UNCHANGED <<facilities, lastRefresh, dashError, dashLoading,
                              okLog>>
    /\ UNCHANGED <<app, allowedRoles, guardOut, routeOut, expiredOut, sent, forms,
                   selectedCountry, selectedCity, dashMounted, dashInterval,
                   dashIssued>>

\* a catch branch that also empties the list
DashResolveFail_clearsList ==
    /\ \E req \in dashPending :
          /\ dashPending' = dashPending \ {req}
          /\ IF req.live
             THEN /\ dashError' = Some("Failed to load dashboard. Please try again.")
                  /\ dashLoading' = FALSE
                  /\ facilities' = <<>>
             ELSE UNCHANGED <<dashError, dashLoading, facilities>>
    /\ UNCHANGED <<app, allowedRoles, guardOut, routeOut, expiredOut, sent, forms,
                   selectedCountry, selectedCity, lastRefresh,
                   dashMounted, dashInterval, dashIssued, okLog>>

\* fetchDashboard after its await, catch branch and finally, for a failure
\* other than a 401
DashResolveFail ==
    /\ \E req \in dashPending :
          /\ dashPending' = dashPending \ {req}
          /\ IF req.live
             THEN /\ dashError' = Some("Failed to load dashboard. Please try again.")
                  /\ dashLoading' = FALSE
             ELSE UNCHANGED <<dashError, dashLoading>>
    /\ UNCHANGED <<app, allowedRoles, guardOut, routeOut, expiredOut, sent, forms,
                   facilities, selectedCountry, selectedCity, lastRefresh,
                   dashMounted, dashInterval, dashIssued, okLog>>

DashNext ==
    DashMount \/ DashUnmount \/ DashElapse \/ DashResolveOK \/ DashResolveFail

DashSpec == DashInit /\ [][DashNext]_vars

\* the filter controls of the mounted Dashboard
DashCountryChange == dashMounted /\ CountryChange
DashCityChange == dashMounted /\ CityChange
DashClearFilters == dashMounted /\ ClearFilters

\* the Dashboard with its filter controls in use
DashPageNext ==
    \/ DashMount \/ DashUnmount \/ DashElapse \/ DashResolveOK
    \/ DashResolveFail
    \/ DashCountryChange \/ DashCityChange \/ DashClearFilters

DashPageSpec == DashInit /\ [][DashPageNext]_vars

\* ------------------------------------------------------- the four forms
\* login (Login), facility (Facilities), user (Users), report (ReportForm)
Forms == {"login", "facility", "user", "report"}

\* the inputs of each form that its validation reads
Fields(form) ==
    CASE form = "login"    -> {"email", "password"}
      [] form = "facility" -> {"name", "country", "city"}
      [] form = "user"     -> {"email", "password", "role", "facility_id"}
      [] form = "report"   -> {"icu_beds_available", "ventilators_available",
                               "staff_on_duty"}

\* what the user can type or select in an input
FieldValues(form, field) ==
    CASE field = "email"       -> {"", "amy", "amy@h.org"}
      [] field = "password"    -> {"", "abc12", "secret12", "Passw0rd!"}
      [] field = "role"        -> {"reporter", "monitor"}
      [] field = "facility_id" -> {"", "7"}
      [] field = "name"        -> {"", " ", "Clinic"}
      [] field = "country"     -> {"", "Kenya"}
      [] field = "city"        -> {"", "Nairobi"}
      [] field = "icu_beds_available" -> {"", "0", "5"}
      [] OTHER                 -> {"", "5"}

\* the useState initial value of the form data
InitialData(form) ==
    [f \in Fields(form) |-> IF f = "role" THEN "reporter" ELSE ""]

\* String.prototype.trim, on the values above
trim(s) == IF s = " " THEN "" ELSE s
\* /\S+@\S+\.\S+/.test(s)
EmailPattern(s) == s = "amy@h.org"
\* s.length
length(s) ==
    CASE s = "" -> 0 [] s = "abc12" -> 5 [] s = "secret12" -> 8
      [] s = "Passw0rd!" -> 9 [] OTHER -> 1
\* /[A-Z]/, /[a-z]/, /[0-9]/, /[!@#$%^&*]/ .test(s)
HasUpper(s) == s = "Passw0rd!"
HasLower(s) == s \in {"abc12", "secret12", "Passw0rd!"}
HasDigit(s) == s \in {"abc12", "secret12", "Passw0rd!"}
HasSpecial(s) == s = "Passw0rd!"
\* parseInt(s): a number, or NaN (None)
parseInt(s) ==
    CASE s = "0" -> Some(0) [] s = "5" -> Some(5) [] s = "7" -> Some(7)
      [] OTHER -> None

\* an errors object without keys
NoFieldErrors(form) == [f \in Fields(form) |-> None]
\* Object.keys(errors).length > 0
HasErrors(errs) == \E f \in DOMAIN errs : errs[f] # None

emailError(s) ==
    IF trim(s) = "" THEN Some("Email is required")
    ELSE IF ~EmailPattern(s) THEN Some("Email is invalid")
    ELSE None

\* Login: validate
validateLogin(d) ==
    [f \in Fields("login") |->
        IF f = "email" THEN emailError(d.email)
        ELSE IF d.password = "" THEN Some("Password is required")
        ELSE IF length(d.password) < 6
        THEN Some("Password must be at least 6 characters")
        ELSE None]

\* Facilities: validateForm
validateFacility(d) ==
    [f \in Fields("facility") |->
        IF trim(d[f]) # "" THEN None
        ELSE IF f = "name" THEN Some("Facility name is required")
        ELSE IF f = "country" THEN Some("Country is required")
        ELSE Some("City is required")]

passwordError(p) ==
    IF p = "" THEN Some("Password is required")
    ELSE IF length(p) < 8 THEN Some("Password must be at least 8 characters")
    ELSE IF ~HasUpper(p)
    THEN Some("Password must contain at least one uppercase letter")
    ELSE IF ~HasLower(p)
    THEN Some("Password must contain at least one lowercase letter")
    ELSE IF ~HasDigit(p)
    THEN Some("Password must contain at least one number")
    ELSE IF ~HasSpecial(p)
    THEN Some("Password must contain at least one special character (!@#$%^&*)")
    ELSE None

\* a validateForm without the facility rule for reporters
validateUser_noFacility(d) ==
    [f \in Fields("user") |->
        IF f = "email" THEN emailError(d.email)
        ELSE IF f = "password" THEN passwordError(d.password)
        ELSE IF f = "role"
        THEN (IF d.role = "" THEN Some("Role is required") ELSE None)
        ELSE None]

\* Users: validateForm
validateUser(d) ==
    [f \in Fields("user") |->
        IF f = "email" THEN emailError(d.email)
        ELSE IF f = "password" THEN passwordError(d.password)
        ELSE IF f = "role"
        THEN (IF d.role = "" THEN Some("Role is required") ELSE None)
        ELSE IF d.role = "reporter" /\ d.facility_id = ""
        THEN Some("Facility is required for reporters")
        ELSE None]

requiredMessage(f) ==
    IF f = "icu_beds_available" THEN "ICU beds available is required"
    ELSE IF f = "ventilators_available" THEN "Ventilators available is required"
    ELSE "Staff on duty is required"

\* ReportForm: validateForm
validateReport(d) ==
    [f \in Fields("report") |->
        IF d[f] = "" THEN Some(requiredMessage(f))
        ELSE IF parseInt(d[f]) = None \/ Val(parseInt(d[f])) < 0
        THEN Some("Must be a non-negative integer")
        ELSE None]

\* the validation the form's handleSubmit calls
validate(form, d) ==
    CASE form = "login"    -> validateLogin(d)
      [] form = "facility" -> validateFacility(d)
      [] form = "user"     -> validateUser(d)
      [] form = "report"   -> validateReport(d)

\* the generic failure banner of the form's page
GenericBanner(form) ==
    CASE form = "login"    -> Unexpected
      [] form = "facility" -> "Failed to add facility. Please try again."
      [] form = "user"     -> "Failed to create user. Please try again."
      [] form = "report"   -> "Failed to submit report. Please try again."

\* the success banner of the form's page (the pages put the created name in)
SuccessBanner(form) ==
    CASE form = "facility" -> "Facility added successfully!"
      [] form = "user"     -> "User created successfully!"
      [] OTHER             -> "Report submitted successfully!"

\* error.response.data.errors for the form: messages keyed by field
ServerFieldErrors(form) ==
    { [f \in Fields(form) |-> IF f = g THEN Some("Rejected by the server") ELSE None]
        : g \in Fields(form) }

\* a failed submission as axios hands it on: status 0 stands for no response
\* (error.response undefined); error / errors are the fields of
\* error.response.data, absent when None; message is error.message
FormFailures(form) ==
    { [status |-> s, error |-> e, errors |-> x, message |-> "Request failed"]
        : s \in {401, 422},
          e \in {None, Some("Account locked")},
          x \in {None} \cup {Some(m) : m \in ServerFieldErrors(form)} }
    \cup { [status |-> 0, error |-> None, errors |-> None, message |-> m]
             : m \in NetworkMessages }

\* Login.handleSubmit, catch block: setErrors replaces the whole errors
\* object, its api key is the banner
loginFormCatch(err) ==
    IF Truthy(err.error)
    THEN [fields |-> NoFieldErrors("login"), banner |-> err.error]
    ELSE IF Truthy(err.errors)
    THEN [fields |-> Val(err.errors), banner |-> None]
    ELSE [fields |-> NoFieldErrors("login"),
          banner |-> IF err.status = 401 THEN Some(InvalidCredentials)
                     ELSE IF err.message = "Network Error" THEN Some(CannotConnect)
                     ELSE Some(Unexpected)]

\* a catch block that shows the generic banner for every failure
formCatch_genericOnly(form, err, fields, shown) ==
    [fields |-> fields, banner |-> Some(GenericBanner(form))]

\* handleSubmit, catch block, given the formErrors and error state it finds
formCatch(form, err, fields, shown) ==
    IF form = "login" THEN loginFormCatch(err)
    ELSE IF Truthy(err.error) THEN [fields |-> fields, banner |-> err.error]
    ELSE IF Truthy(err.errors) THEN [fields |-> Val(err.errors), banner |-> shown]
    ELSE [fields |-> fields, banner |-> Some(GenericBanner(form))]

\* a submit control that is never disabled
submitDisabled_never(form, flag) == FALSE

\* the submit button's disabled attribute: loading on the login page,
\* submitting on the others
submitDisabled(form, flag) == flag

\* Facilities and Users keep their form behind the Add button
Collapsible(form) == form \in {"facility", "user"}

\* handleInputChange: the form data after the change of one field
changeField(form, d, field, value) ==
    IF form = "user" /\ field = "role" /\ value # "reporter"
    THEN [d EXCEPT ![field] = value, !["facility_id"] = ""]
    ELSE [d EXCEPT ![field] = value]

\* the page of each form and the role that reaches it
FormPath(form) ==
    CASE form = "login"    -> "/login"
      [] form = "facility" -> "/admin/facilities"
      [] form = "user"     -> "/admin/users"
      [] form = "report"   -> "/report"
FormRole(form) == IF form = "report" THEN "REPORTER" ELSE "ADMIN"

\* a visitor without a session on the login page, initialisation done
Visitor ==
    /\ now = 0
    /\ ls = NoStorage
    /\ token = None /\ user = None /\ role = None /\ loading = FALSE
    /\ location = "/login"
    /\ href = None
    /\ inflight = {}
    /\ errors = NoErrors /\ banner = None /\ fetched = FALSE
    /\ ev = Quiet("open")

\* what the form's handlers leave alone
outside == <<allowedRoles, guardOut, routeOut, expiredOut, sent, dashboard,
             dismissIn, report>>

\* the last form handler that ran, the failure it handled, and whether the
\* page that sent the request was still there
FormEvent(op, err, live) == [op |-> op, err |-> err, live |-> live]

\* the useState initial values of the form's page
FormFresh ==
    /\ formData' = InitialData(formKind)
    /\ formErrors' = NoFieldErrors(formKind)
    /\ formError' = None /\ formSuccess' = None
    /\ submitting' = FALSE
    /\ showForm' = ~Collapsible(formKind)

FormInit ==
    /\ \E form \in Forms :
          /\ formKind = form
          /\ IF form = "login" THEN Visitor
             ELSE Rendered(FormPath(form), FormRole(form))
    /\ allowedRoles = <<>> /\ guardOut = None /\ routeOut = None
    /\ expiredOut = None
    /\ sent = None
    /\ DashIdle
    /\ formMounted = TRUE
    /\ formData = InitialData(formKind)
    /\ formErrors = NoFieldErrors(formKind)
    /\ formError = None /\ formSuccess = None
    /\ submitting = FALSE
    /\ showForm = ~Collapsible(formKind)
    /\ formPending = {} /\ formSent = 0
    /\ formEv = FormEvent("mount", None, TRUE)
    /\ dismissIn = None
    /\ ReportIdle

\* the Add button: setShowForm(true)
FormOpen ==
    /\ formMounted /\ Collapsible(formKind) /\ ~showForm
    /\ showForm' = TRUE
    /\ formEv' = FormEvent("open", None, TRUE)
    /\ UNCHANGED <<app, outside, formKind, formMounted, formData, formErrors,
                   formError, formSuccess, submitting, formPending, formSent>>

\* handleCancel, behind a button that is disabled while submitting
FormCancel ==
    /\ formMounted /\ Collapsible(formKind) /\ showForm /\ ~submitting
    /\ showForm' = FALSE
    /\ formData' = InitialData(formKind)
    /\ formErrors' = NoFieldErrors(formKind)
    /\ formEv' = FormEvent("cancel", None, TRUE)
    /\ UNCHANGED <<app, outside, formKind, formMounted, formError,
                   formSuccess, submitting, formPending, formSent>>

\* handleInputChange (onChange on the login page): the field takes the new
\* value and its error is cleared; the values typed into the report form
\* are digits, which its handler lets through
FormInput ==
    /\ formMounted /\ showForm
    /\ \E field \in Fields(formKind) :
       \E value \in FieldValues(formKind, field) :
          /\ formData' = changeField(formKind, formData, field, value)
          /\ formErrors' = IF formKind = "login" THEN formErrors
                           ELSE [formErrors EXCEPT ![field] = None]
    /\ formEv' = FormEvent("input", None, TRUE)
    /\ UNCHANGED <<app, outside, formKind, formMounted, formError,
                   formSuccess, submitting, showForm, formPending, formSent>>

\* a handleSubmit that sets the flag before it validates
FormSubmit_flagFirst ==
    /\ formMounted /\ showForm
    /\ ~submitDisabled(formKind, submitting)
    /\ submitting' = TRUE
    /\ LET found == validate(formKind, formData) IN
       IF HasErrors(found)
       THEN /\ formErrors' = found
            /\ UNCHANGED <<formPending, formSent>>
       ELSE /\ formSent < MaxSubmits
            /\ formErrors' = NoFieldErrors(formKind)
            /\ formPending' = formPending \cup
                                {[id |-> formSent + 1, live |-> TRUE]}
            /\ formSent' = formSent + 1
    /\ formError' = None
    /\ formSuccess' = None
    /\ formEv' = FormEvent("submit", None, TRUE)
    /\ UNCHANGED <<app, outside, formKind, formMounted, formData, showForm>>

\* handleSubmit up to its await: the messages are cleared, validation runs,
\* and only a form without field errors sets the flag and posts
FormSubmit ==
    /\ formMounted /\ showForm
    /\ ~submitDisabled(formKind, submitting)
    /\ LET found == validate(formKind, formData) IN
       IF HasErrors(found)
       THEN /\ formErrors' = found
            /\ UNCHANGED <<submitting, formPending, formSent>>
       ELSE /\ formSent < MaxSubmits
            /\ formErrors' = NoFieldErrors(formKind)
            /\ submitting' = TRUE
            /\ formPending' = formPending \cup
                                {[id |-> formSent + 1, live |-> TRUE]}
            /\ formSent' = formSent + 1
    /\ formError' = None
    /\ formSuccess' = None
    /\ formEv' = FormEvent("submit", None, TRUE)
    /\ UNCHANGED <<app, outside, formKind, formMounted, formData, showForm>>

\* the sessions a successful login can open
FormLogins ==
    {d \in LoginData :
        d.access_token = TokenWithExp(MaxExp) /\ d.facility_id = "null"}

\* handleSubmit after its await, try branch and finally.  Login: login()
\* and navigate(), the login page is gone.  Facilities, Users: the form is
\* reset and closed (the created entry is appended to the page's list, which
\* is not part of the form).  ReportForm: the success banner.
FormRespondOK ==
    /\ \E req \in formPending :
          /\ formPending' = formPending \ {req}
          /\ formEv' = FormEvent("respondOK", None, req.live)
          /\ IF ~req.live
             THEN UNCHANGED <<app, formMounted, formData, formErrors,
                              formError, formSuccess, submitting, showForm>>
             ELSE IF formKind = "login"
             THEN /\ \E d \in FormLogins :
                        LET u == [email |-> formData.email,
                                  facility_id |-> d.facility_id]
                        IN  /\ token' = Some(d.access_token)
                            /\ user' = Some(u)
                            /\ role' = Some(d.role)
                            /\ ls' = loginStorage(d.access_token, u, d.role)
                            /\ location' = RoleSwitch(Some(toUpperCase(d.role)), "/")
                  /\ formMounted' = FALSE
                  /\ FormFresh
                  /\ UNCHANGED <<now, loading, href, inflight, errors, banner,
                                 fetched, ev>>
             ELSE /\ IF Collapsible(formKind)
                     THEN /\ formData' = InitialData(formKind)
                          /\ showForm' = FALSE
                     ELSE UNCHANGED <<formData, showForm>>
                  /\ formSuccess' = Some(SuccessBanner(formKind))
                  /\ submitting' = FALSE
                  /\ UNCHANGED <<app, formMounted, formErrors, formError>>
    /\ UNCHANGED <<outside, formKind, formSent>>

\* handleSubmit after its await, failure: the response interceptor's error
\* branch, then the page's catch block and finally
FormRespondFail ==
    /\ \E req \in formPending, err \in FormFailures(formKind) :
          /\ formPending' = formPending \ {req}
          /\ formEv' = FormEvent("respondFail", Some(err), req.live)
          /\ ls' = interceptorStorage(ls, err.status)
          /\ href' = interceptorHref(href, err.status)
          /\ IF req.live /\ interceptorRejects(err.status)
             THEN LET c == formCatch(formKind, err, formErrors, formError) IN
                  /\ formErrors' = c.fields
                  /\ formError' = c.banner
                  /\ submitting' = FALSE
             ELSE UNCHANGED <<formErrors, formError, submitting>>
    /\ UNCHANGED <<now, token, user, role, loading, location, inflight,
                   errors, banner, fetched, ev, outside, formKind,
                   formMounted, formData, formSuccess, showForm, formSent>>

\* the user goes to another page and comes back: a new instance of the page
\* with its initial state; the requests of the old one can no longer set it
FormLeave ==
    /\ formMounted
    /\ FormFresh
    /\ formPending' = Stale(formPending)
    /\ formEv' = FormEvent("mount", None, TRUE)
    /\ UNCHANGED <<app, outside, formKind, formMounted, formSent>>

FormNext ==
    \/ FormOpen \/ FormCancel \/ FormInput \/ FormSubmit
    \/ FormRespondOK \/ FormRespondFail \/ FormLeave

FormSpec == FormInit /\ [][FormNext]_vars

\* ------------------------------------------- the pages' banners and timer
\* setTimeout(..., 5000) of the auto-dismiss effect
DismissMs == 5000
\* the step in which time passes for the banners
StepMs == DismissMs \div 2

\* the pages with a success and an error banner
BannerPages == {"facility", "user", "report"}

\* what the user may have typed when the form is submitted
FormInputs(form) ==
    {d \in [Fields(form) -> UNION {FieldValues(form, f) : f \in Fields(form)}] :
        \A f \in Fields(form) : d[f] \in FieldValues(form, f)}

\* whether validateForm can refuse, and can accept, what a page's form holds
Refusals ==
    [form \in BannerPages |->
        {HasErrors(validate(form, d)) : d \in FormInputs(form)}]

\* the error the page's mount fetch leaves when it fails: fetchFacilities
\* and fetchUsers set their message, fetchLatestReport sets none
loadCatch(form, shown) ==
    CASE form = "facility" -> Some("Failed to load facilities. Please try again.")
      [] form = "user"     -> Some("Failed to load users. Please try again.")
      [] OTHER             -> shown

\* an auto-dismiss effect that only watches the success banner
dismissEffect_successOnly(oldS, oldE, newS, newE, timer) ==
    IF newS = oldS THEN timer
    ELSE IF Truthy(newS) THEN Some(DismissMs)
    ELSE None

\* the auto-dismiss effect with dependencies [success, error]: when one of
\* them has changed the cleanup clears the old timer, and a new one is
\* started if a banner is set
dismissEffect(oldS, oldE, newS, newE, timer) ==
    IF newS = oldS /\ newE = oldE THEN timer
    ELSE IF Truthy(newS) \/ Truthy(newE) THEN Some(DismissMs)
    ELSE None

\* the handler's setSuccess / setError are committed and the effect runs
SetBanners(s, e) ==
    /\ formSuccess' = s
    /\ formError' = e
    /\ dismissIn' = dismissEffect(formSuccess, formError, s, e, dismissIn)

\* the page has mounted and its mount fetch is in flight
BannerInit ==
    /\ \E form \in BannerPages :
          formKind = form /\ Rendered(FormPath(form), FormRole(form))
    /\ allowedRoles = <<>> /\ guardOut = None /\ routeOut = None
    /\ expiredOut = None
    /\ sent = None
    /\ DashIdle
    /\ formMounted = TRUE
    /\ formData = <<>> /\ formErrors = <<>>
    /\ formError = None /\ formSuccess = None
    /\ submitting = FALSE /\ showForm = FALSE
    /\ formPending = {[kind |-> "fetch", id |-> 0, live |-> TRUE]}
    /\ formSent = 0
    /\ formEv = FormEvent("mount", None, TRUE)
    /\ dismissIn = None
    /\ ReportIdle

\* what the banner handlers leave alone
bannerFrame == <<allowedRoles, guardOut, routeOut, expiredOut, sent,
                 dashboard, formKind, formData, formErrors, showForm,
                 report>>

\* handleSubmit up to its await, with whatever the form holds
BannerSubmit ==
    /\ formMounted /\ ~submitDisabled(formKind, submitting)
    /\ \E refused \in Refusals[formKind] :
          IF refused
          THEN UNCHANGED <<submitting, formPending, formSent>>
          ELSE /\ formSent < MaxSubmits
               /\ submitting' = TRUE
               /\ formPending' = formPending \cup
                     {[kind |-> "submit", id |-> formSent + 1, live |-> TRUE]}
               /\ formSent' = formSent + 1
    /\ SetBanners(None, None)
    /\ formEv' = FormEvent("submit", None, TRUE)
    /\ UNCHANGED <<app, bannerFrame, formMounted>>

\* the page's fetch resolves: the mount fetch, or on the report page the
\* re-fetch that follows a successful submission
BannerFetchDone ==
    /\ \E req \in {r \in formPending : r.kind = "fetch"}, ok \in BOOLEAN :
          /\ formPending' = formPending \ {req}
          /\ formEv' = FormEvent(IF ok THEN "fetchOK" ELSE "fetchFail",
                                 None, req.live)
          /\ IF ~req.live
             THEN UNCHANGED <<formSuccess, formError, dismissIn>>
             ELSE SetBanners(formSuccess,
                             IF ok THEN None
                             ELSE loadCatch(formKind, formError))
    /\ UNCHANGED <<app, bannerFrame, formMounted, submitting, formSent>>

\* handleSubmit after its await, success
BannerRespondOK ==
    /\ \E req \in {r \in formPending : r.kind = "submit"} :
          /\ formPending' = (formPending \ {req}) \cup
                IF formKind = "report"
                THEN {[kind |-> "fetch", id |-> req.id, live |-> req.live]}
                ELSE {}
          /\ formEv' = FormEvent("respondOK", None, req.live)
          /\ IF ~req.live
             THEN UNCHANGED <<formSuccess, formError, dismissIn, submitting>>
             ELSE /\ SetBanners(Some(SuccessBanner(formKind)), formError)
                  /\ submitting' = FALSE
    /\ UNCHANGED <<app, bannerFrame, formMounted, formSent>>

\* handleSubmit after its await, failure
BannerRespondFail ==
    /\ \E req \in {r \in formPending : r.kind = "submit"},
          err \in FormFailures(formKind) :
          /\ formPending' = formPending \ {req}
          /\ formEv' = FormEvent("respondFail", Some(err), req.live)
          /\ ls' = interceptorStorage(ls, err.status)
          /\ href' = interceptorHref(href, err.status)
          /\ IF req.live /\ interceptorRejects(err.status)
             THEN /\ SetBanners(formSuccess,
                        formCatch(formKind, err, formErrors, formError).banner)
                  /\ submitting' = FALSE
             ELSE UNCHANGED <<formSuccess, formError, dismissIn, submitting>>
    /\ UNCHANGED <<now, token, user, role, loading, location, inflight,
                   errors, banner, fetched, ev, bannerFrame, formMounted,
                   formSent>>

\* time passes while a timer runs; when the delay is over the callback
\* clears both banners
BannerElapse ==
    /\ formMounted /\ dismissIn # None
    /\ formEv' = FormEvent("elapse", None, TRUE)
    /\ IF Val(dismissIn) > StepMs
       THEN /\ dismissIn' = Some(Val(dismissIn) - StepMs)
            /\ UNCHANGED <<formSuccess, formError>>
       ELSE /\ formSuccess' = None
            /\ formError' = None
            /\ dismissIn' = dismissEffect(formSuccess, formError, None, None,
                                          None)
    /\ UNCHANGED <<app, bannerFrame, formMounted, submitting, formPending,
                   formSent>>

\* the user goes to another page and comes back: the effect's cleanup
\* clears the timer, and a new instance of the page mounts
BannerLeave ==
    /\ formMounted
    /\ formSuccess' = None /\ formError' = None
    /\ dismissIn' = None
    /\ submitting' = FALSE
    /\ formPending' = Stale(formPending) \cup
          {[kind |-> "fetch", id |-> 0, live |-> TRUE]}
    /\ formEv' = FormEvent("mount", None, TRUE)
    /\ UNCHANGED <<app, bannerFrame, formMounted, formSent>>

BannerNext ==
    \/ BannerSubmit \/ BannerFetchDone \/ BannerRespondOK
    \/ BannerRespondFail \/ BannerElapse \/ BannerLeave

BannerSpec == BannerInit /\ [][BannerNext]_vars

\* the browser runs a timer's callback once its delay is over
BannerFairSpec == BannerSpec /\ WF_vars(BannerElapse)

\* ------------------------------------------- the user-creation form
\* the fields of the Users form data
UserFields == {"email", "password", "role", "country", "city", "facility_id"}

\* the facility records of GET /admin/facilities the form reads
UserFacility(id, place) ==
    [id |-> id, country |-> place.country, city |-> place.city]

\* what the facilities state of the Users page may hold
UserFacilityLists ==
    { <<>>,
      <<UserFacility(7, Nairobi)>>,
      <<UserFacility(7, Nairobi), UserFacility(5, Mombasa),
        UserFacility(0, [country |-> "Uganda", city |-> "Nairobi"])>> }

\* the value attribute of an option: the id as a string
String(n) == CASE n = 0 -> "0" [] n = 5 -> "5" [] n = 7 -> "7"

\* a non-empty string is truthy
NonEmpty(s) == s # ""

\* the useState initial value of the form data, also set by handleCancel
\* and after a successful creation
UserInitialData ==
    [f \in UserFields |-> IF f = "role" THEN "reporter" ELSE ""]

\* the values the rendered input of a field offers: the three role options,
\* uniqueCountries, uniqueCities, filteredFacilities as options under the
\* empty one; the reporter-only selects are rendered for a reporter only
UserOptions(list, d, field) ==
    CASE field = "role"    -> {"reporter", "monitor", "admin"}
      [] field = "country" ->
            IF d.role = "reporter" THEN {""} \cup uniqueCountries(list) ELSE {}
      [] field = "city" ->
            IF d.role = "reporter"
            THEN {""} \cup uniqueCities(list, d.country) ELSE {}
      [] field = "facility_id" ->
            IF d.role = "reporter"
            THEN LET shown == filteredFacilities(list, d.country, d.city)
                 IN  {""} \cup {String(shown[i].id) : i \in 1..Len(shown)}
            ELSE {}
      [] OTHER -> FieldValues("user", field)

\* a handler that keeps the facility when the city changes
handleInputChange_keepsFacility(d, name, value) ==
    LET updated == [d EXCEPT ![name] = value]
        byRole  == IF name = "role" /\ value # "reporter"
                   THEN [updated EXCEPT !["facility_id"] = "",
                                        !["country"] = "", !["city"] = ""]
                   ELSE updated
    IN  IF name = "country"
        THEN [byRole EXCEPT !["city"] = "", !["facility_id"] = ""]
        ELSE byRole

\* handleInputChange: the updater of setFormData
handleInputChange(d, name, value) ==
    LET updated   == [d EXCEPT ![name] = value]
        byRole    == IF name = "role" /\ value # "reporter"
                     THEN [updated EXCEPT !["facility_id"] = "",
                                          !["country"] = "", !["city"] = ""]
                     ELSE updated
        byCountry == IF name = "country"
                     THEN [byRole EXCEPT !["city"] = "", !["facility_id"] = ""]
                     ELSE byRole
    IN  IF name = "city"
        THEN [byCountry EXCEPT !["facility_id"] = ""]
        ELSE byCountry

\* the payload handleSubmit posts: facility_id is a number or NaN (None)
userPayload(d) ==
    LET payload == [f \in {"email", "password", "role"} |-> Some(d[f])]
    IN  IF d.role = "reporter" /\ NonEmpty(d.facility_id)
        THEN [f \in {"email", "password", "role", "facility_id"} |->
                 IF f = "facility_id" THEN parseInt(d.facility_id)
                 ELSE payload[f]]
        ELSE payload

\* the Users page with its facilities loaded
UserInit ==
    /\ Rendered("/admin/users", "ADMIN")
    /\ allowedRoles = <<>> /\ guardOut = None /\ routeOut = None
    /\ expiredOut = None
    /\ sent = None
    /\ facilities \in UserFacilityLists
    /\ selectedCountry = "" /\ selectedCity = ""
    /\ dashLoading = FALSE /\ dashError = None /\ lastRefresh = None
    /\ dashMounted = FALSE /\ dashInterval = FALSE
    /\ dashPending = {} /\ dashIssued = 0 /\ okLog = <<>>
    /\ formKind = "user" /\ formMounted = TRUE
    /\ formData = UserInitialData
    /\ formErrors = NoFieldErrors("user")
    /\ formError = None /\ formSuccess = None
    /\ submitting = FALSE /\ showForm = FALSE
    /\ formPending = {} /\ formSent = 0
    /\ formEv = FormEvent("mount", None, TRUE)
    /\ dismissIn = None
    /\ ReportIdle

\* what the handlers of the form leave alone
userFrame == <<app, allowedRoles, guardOut, routeOut, expiredOut, dashboard,
               formKind, formMounted, dismissIn, report>>

\* the Add New User button
UserShowForm ==
    /\ ~showForm
    /\ showForm' = TRUE
    /\ formEv' = FormEvent("open", None, TRUE)
    /\ UNCHANGED <<userFrame, sent, formData, formErrors, formError,
                   formSuccess, submitting, formPending, formSent>>

\* handleInputChange on one of the rendered inputs
UserChange ==
    /\ showForm
    /\ \E name \in UserFields :
          \E value \in UserOptions(facilities, formData, name) :
             /\ formData' = handleInputChange(formData, name, value)
             /\ formErrors' = IF name \in DOMAIN formErrors
                              THEN [formErrors EXCEPT ![name] = None]
                              ELSE formErrors
    /\ formEv' = FormEvent("input", None, TRUE)
    /\ UNCHANGED <<userFrame, sent, showForm, formError, formSuccess,
                   submitting, formPending, formSent>>

\* handleCancel
UserCancel ==
    /\ showForm /\ ~submitDisabled("user", submitting)
    /\ showForm' = FALSE
    /\ formData' = UserInitialData
    /\ formErrors' = NoFieldErrors("user")
    /\ formEv' = FormEvent("cancel", None, TRUE)
    /\ UNCHANGED <<userFrame, sent, formError, formSuccess, submitting,
                   formPending, formSent>>

\* handleSubmit up to the post
UserSubmit ==
    /\ showForm /\ ~submitDisabled("user", submitting)
    /\ formError' = None /\ formSuccess' = None
    /\ formEv' = FormEvent("submit", None, TRUE)
    /\ LET errs == validateUser(formData) IN
       IF HasErrors(errs)
       THEN /\ formErrors' = errs
            /\ UNCHANGED <<sent, submitting, formPending, formSent>>
       ELSE /\ formSent < MaxSubmits
            /\ formErrors' = NoFieldErrors("user")
            /\ submitting' = TRUE
            /\ sent' = Some(userPayload(formData))
            /\ formPending' = formPending \cup
                  {[id |-> formSent + 1, live |-> TRUE]}
            /\ formSent' = formSent + 1
    /\ UNCHANGED <<userFrame, showForm, formData>>

\* handleSubmit after the post: the form is reset and closed when the user
\* was created, and kept when the request failed (shown for a failure
\* without a response body)
UserRespond ==
    /\ \E req \in formPending, ok \in BOOLEAN :
          /\ formPending' = formPending \ {req}
          /\ formEv' = FormEvent(IF ok THEN "respondOK" ELSE "respondFail",
                                 None, TRUE)
          /\ formData' = IF ok THEN UserInitialData ELSE formData
          /\ showForm' = IF ok THEN FALSE ELSE showForm
          /\ formSuccess' = IF ok THEN Some(SuccessBanner("user"))
                            ELSE formSuccess
          /\ formError' = IF ok THEN formError
                          ELSE Some(GenericBanner("user"))
    /\ submitting' = FALSE
    /\ UNCHANGED <<userFrame, sent, formErrors, formSent>>

UserNext ==
    UserShowForm \/ UserChange \/ UserCancel \/ UserSubmit \/ UserRespond

UserFormSpec == UserInit /\ [][UserNext]_vars

\* ------------------------------------------- initialisation on any storage
\* a user item that is no JSON text
Truncated == "{email:"

\* what localStorage may hold when the app is opened: each item missing or
\* present, the token of any shape, the user item parseable or not
StoredContents ==
    [access_token : {None} \cup {Some(t) : t \in Tokens},
     user : {None, Some(Truncated)}
               \cup {Some(JSONstringify(u)) : u \in UserObjs},
     role : {None} \cup {Some(r) : r \in RoleValues}]

\* JSON.parse(s) returns: it throws a SyntaxError on any other text
Parses(s) == \E u \in UserObjs : JSONstringify(u) = s

\* the init effect throws at JSON.parse(storedUser), between setToken and
\* setRole, and never reaches setLoading(false)
initThrows(store, t) ==
    /\ AllStored(store) /\ StoredTokenFresh(store, t)
    /\ ~Parses(Val(store.user))

LoadInit ==
    /\ now = 0
    /\ ls \in StoredContents
    /\ \E path \in Paths : Mount(path)
    /\ ev = Quiet("open")
    /\ allowedRoles = <<>> /\ guardOut = None /\ routeOut = None
    /\ expiredOut = None
    /\ PagesIdle

\* the first effect pass on any storage: when AuthProvider's effect throws,
\* React unmounts the tree, and no state of it is ever set again
LoadEffect ==
    /\ ev.op = "open"
    /\ IF initThrows(ls, now)
       THEN /\ loading
            /\ location' = IF View.kind = "navigate" THEN View.arg
                           ELSE location
            /\ ev' = Quiet("initEffectThrew")
            /\ UNCHANGED <<now, ls, token, user, role, loading, href,
                           inflight, errors, banner, fetched, probe>>
       ELSE InitEffect

LoadNext == LoadEffect \/ Redirect

LoadSpec == LoadInit /\ [][LoadNext]_vars

\* React runs the effects of a commit
LoadFairSpec == LoadSpec /\ WF_vars(LoadEffect)

\* ------------------------------------------- the chain of redirects
\* the app after initialisation, on any path, with any session in memory:
\* none, one restored from storage with any role value, or one with an item
\* missing
ChainInit ==
    /\ now = 0
    /\ \E path \in Paths :
          /\ location = path
          /\ href = None /\ inflight = {}
          /\ errors = NoErrors /\ banner = None /\ fetched = FALSE
    /\ loading = FALSE
    /\ token \in {None} \cup {Some(TokenWithExp(MaxExp))}
    /\ user \in {None} \cup {Some(u) : u \in UserObjs}
    /\ role \in {None} \cup {Some(r) : r \in RoleValues}
    /\ ls = IF isAuthenticated(token, user, role)
            THEN loginStorage(Val(token), Val(user), Val(role))
            ELSE NoStorage
    /\ ev = Quiet("initEffect")
    /\ allowedRoles = <<>> /\ guardOut = None /\ routeOut = None
    /\ expiredOut = None
    /\ PagesIdle

ChainNext == Redirect

ChainSpec == ChainInit /\ [][ChainNext]_vars

\* React runs the effect of a rendered <Navigate>
ChainFairSpec == ChainSpec /\ WF_vars(Redirect)

\* ------------------------------------------- the report page
\* response.data.report of GET /reporter/reports/me: none, one with all
\* three values, one with null values
ServerReports ==
    { None,
      Some([f \in Fields("report") |-> Some(5)]),
      Some([f \in Fields("report") |->
               IF f = "icu_beds_available" THEN Some(0) ELSE None]) }

\* /^\d+$/.test(value), on the values typed here
DigitsOnly(value) == value \in {"0", "5", "7"}

\* what the reporter may type into a numeric field
TypedValues(field) == FieldValues("report", field) \cup {"-1"}

\* report.field ?? '': the number the input then shows, or the empty string
orEmpty(v) == IF v = None THEN "" ELSE String(Val(v))

\* fetchLatestReport: setFormData(prev => ({...prev, <the three fields>}))
applyReport(d, rep) == [f \in DOMAIN d |-> orEmpty(rep[f])]

\* nothing typed since the last successful submission
NothingTyped == [f \in Fields("report") |-> None]

\* the report page has mounted and its mount fetch is in flight
ReportInit ==
    /\ Rendered("/report", "REPORTER")
    /\ allowedRoles = <<>> /\ guardOut = None /\ routeOut = None
    /\ expiredOut = None
    /\ sent = None
    /\ DashIdle
    /\ formKind = "report" /\ formMounted = TRUE
    /\ formData = InitialData("report")
    /\ formErrors = NoFieldErrors("report")
    /\ formError = None /\ formSuccess = None
    /\ submitting = FALSE /\ showForm = TRUE
    /\ formPending = {[kind |-> "fetch", id |-> 0, live |-> TRUE]}
    /\ formSent = 0
    /\ formEv = FormEvent("mount", None, TRUE)
    /\ dismissIn = None
    /\ reportLoading = TRUE
    /\ typed = NothingTyped

\* what the handlers of the report page leave alone
reportFrame == <<allowedRoles, guardOut, routeOut, expiredOut, sent,
                 dashboard, formKind, formMounted, showForm>>

\* handleInputChange: the form is rendered once loading is false
ReportInput ==
    /\ formMounted /\ ~reportLoading
    /\ \E field \in Fields("report") :
       \E value \in TypedValues(field) :
          IF value # "" /\ ~DigitsOnly(value)
          THEN UNCHANGED <<formData, formErrors, typed>>
          ELSE /\ formData' = [formData EXCEPT ![field] = value]
               /\ formErrors' = [formErrors EXCEPT ![field] = None]
               /\ typed' = [typed EXCEPT ![field] = Some(value)]
    /\ formEv' = FormEvent("input", None, TRUE)
    /\ UNCHANGED <<app, reportFrame, formError, formSuccess, dismissIn,
                   submitting, formPending, formSent, reportLoading>>

\* handleSubmit up to its await
ReportSubmit ==
    /\ formMounted /\ ~reportLoading
    /\ ~submitDisabled("report", submitting)
    /\ SetBanners(None, None)
    /\ formEv' = FormEvent("submit", None, TRUE)
    /\ LET errs == validateReport(formData) IN
       IF HasErrors(errs)
       THEN /\ formErrors' = errs
            /\ UNCHANGED <<submitting, formPending, formSent>>
       ELSE /\ formSent < MaxReports
            /\ formErrors' = NoFieldErrors("report")
            /\ submitting' = TRUE
            /\ formPending' = formPending \cup
                  {[kind |-> "submit", id |-> formSent + 1, live |-> TRUE]}
            /\ formSent' = formSent + 1
    /\ UNCHANGED <<app, reportFrame, formData, reportLoading, typed>>

\* handleSubmit after its await, success: the banner, and the timer of the
\* re-fetch, which nothing clears
ReportRespondOK ==
    /\ \E req \in {r \in formPending : r.kind = "submit"} :
          /\ formPending' = (formPending \ {req}) \cup
                {[kind |-> "timer", id |-> req.id, live |-> req.live]}
          /\ formEv' = FormEvent("respondOK", None, req.live)
          /\ IF ~req.live
             THEN UNCHANGED <<formSuccess, formError, dismissIn, submitting,
                              typed>>
             ELSE /\ SetBanners(Some(SuccessBanner("report")), formError)
                  /\ submitting' = FALSE
                  /\ typed' = NothingTyped
    /\ UNCHANGED <<app, reportFrame, formData, formErrors, formSent,
                   reportLoading>>

\* handleSubmit after its await, failure
ReportRespondFail ==
    /\ \E req \in {r \in formPending : r.kind = "submit"},
          err \in FormFailures("report") :
          /\ formPending' = formPending \ {req}
          /\ formEv' = FormEvent("respondFail", Some(err), req.live)
          /\ ls' = interceptorStorage(ls, err.status)
          /\ href' = interceptorHref(href, err.status)
          /\ IF req.live /\ interceptorRejects(err.status)
             THEN LET c == formCatch("report", err, formErrors, formError) IN
                  /\ SetBanners(formSuccess, c.banner)
                  /\ formErrors' = c.fields
                  /\ submitting' = FALSE
             ELSE UNCHANGED <<formSuccess, formError, dismissIn, formErrors,
                              submitting>>
    /\ UNCHANGED <<now, token, user, role, loading, location, inflight,
                   errors, banner, fetched, ev, reportFrame, formData,
                   formSent, reportLoading, typed>>

\* one second after a successful submission: fetchLatestReport up to its
\* await
ReportTimer ==
    /\ \E req \in {r \in formPending : r.kind = "timer"} :
          /\ formPending' = (formPending \ {req}) \cup
                {[kind |-> "fetch", id |-> req.id, live |-> req.live]}
          /\ formEv' = FormEvent("refetch", None, req.live)
          /\ reportLoading' = IF req.live THEN TRUE ELSE reportLoading
    /\ UNCHANGED <<app, reportFrame, formData, formErrors, formError,
                   formSuccess, dismissIn, submitting, formSent, typed>>

\* fetchLatestReport after its await: a response with or without a report,
\* or a failure
ReportFetchDone ==
    /\ \E req \in {r \in formPending : r.kind = "fetch"},
          ok \in BOOLEAN, rep \in ServerReports :
          /\ formPending' = formPending \ {req}
          /\ formEv' = FormEvent(IF ok THEN "fetchOK" ELSE "fetchFail",
                                 None, req.live)
          /\ IF ~req.live
             THEN UNCHANGED <<formData, formSuccess, formError, dismissIn,
                              reportLoading>>
             ELSE /\ formData' = IF ok /\ rep # None
                                 THEN applyReport(formData, Val(rep))
                                 ELSE formData
                  /\ SetBanners(formSuccess, IF ok THEN None ELSE formError)
                  /\ reportLoading' = FALSE
    /\ UNCHANGED <<app, reportFrame, formErrors, submitting, formSent, typed>>

\* the reporter goes to another page and comes back: a new instance of the
\* page; the timer and the requests of the old one can no longer set it
ReportLeave ==
    /\ formMounted
    /\ formData' = InitialData("report")
    /\ formErrors' = NoFieldErrors("report")
    /\ formSuccess' = None /\ formError' = None
    /\ dismissIn' = None
    /\ submitting' = FALSE
    /\ reportLoading' = TRUE
    /\ typed' = NothingTyped
    /\ formPending' = Stale(formPending) \cup
          {[kind |-> "fetch", id |-> 0, live |-> TRUE]}
    /\ formEv' = FormEvent("mount", None, TRUE)
    /\ UNCHANGED <<app, reportFrame, formSent>>

ReportNext ==
    \/ ReportInput \/ ReportSubmit \/ ReportRespondOK \/ ReportRespondFail
    \/ ReportTimer \/ ReportFetchDone \/ BannerElapse \/ ReportLeave

ReportSpec == ReportInit /\ [][ReportNext]_vars

\* ================================================================ claims
Responded == ev.op \in {"loginRespond", "fetchRespond"}
Authenticated == token # None /\ user # None /\ role # None

\* C1: in every reachable state the persisted items access_token, user and
\* role are all present or all absent, and the in-memory token, user and
\* role are all set or all null.
C1_NoPartialSession ==
    /\ \/ (ls.access_token # None /\ ls.user # None /\ ls.role # None)
       \/ (ls.access_token = None /\ ls.user = None /\ ls.role = None)
    /\ \/ (token # None /\ user # None /\ role # None)
       \/ (token = None /\ user = None /\ role = None)

\* C2: a response with status 401, whatever the endpoint and the body, leaves
\* no token, user or role in storage and a full navigation to /login pending.
C2_Every401ClearsSession ==
    (Responded /\ ev.status = 401) =>
        /\ ls.access_token = None /\ ls.user = None /\ ls.role = None
        /\ href = Some("/login")

\* C3: when POST /auth/login is answered 401 with body
\* {error: "Invalid email or password"}, the login page shows exactly that
\* message, no router or full page navigation is made and login() is not
\* called.
C3_InvalidLoginStaysOnPage ==
    (ev.op = "loginRespond" /\ ev.status = 401
        /\ ev.err = Some("Invalid email or password") /\ ev.live) =>
        /\ errors.api = Some("Invalid email or password")
        /\ ev.nav = "none"
        /\ ev.call # "login"

\* C4: when a request of a mounted page (facilities list, dashboard) fails
\* with status 401, the page's own catch block does not run for that call
\* and the page shows no error banner.
C4_401SkipsPageHandler ==
    (ev.op = "fetchRespond" /\ ev.status = 401 /\ ev.live) =>
        ~ev.caught /\ banner = None

\* C5: right after login() the session is authenticated and token, user and
\* role are persisted as given; right after logout() it is not authenticated
\* and nothing is persisted; after the Navbar logout every protected route
\* renders the redirect to /login.
C5_LoginLogout ==
    /\ ev.call = "login" =>
          /\ Authenticated
          /\ ls.access_token = token
          /\ ls.user # None /\ JSONparse(Val(ls.user)) = Val(user)
          /\ ls.role = role
    /\ ev.call = "logout" =>
          /\ ~Authenticated
          /\ ls.access_token = None /\ ls.user = None /\ ls.role = None
    /\ ev.op = "handleLogout" =>
          \A p \in ProtectedPaths :
              Element(p, loading, token, user, role) = Navigate("/login")

\* C5 witness: the Navbar logout has run on a logged-in session
C5_Witness ==
    ev.op = "handleLogout" /\ ev.call = "logout" /\ location = "/login"


\* the token's expiry claim as the claims speak of it: a token built with
\* expiry n seconds lies in the past (future) when n seconds is before
\* (after) the clock
ClaimPast(tok, t) ==
    \E n \in 0..MaxExp : tok = Some(TokenWithExp(n)) /\ n * 1000 < t
ClaimFuture(tok, t) ==
    \E n \in 0..MaxExp : tok = Some(TokenWithExp(n)) /\ n * 1000 > t
Undecodable(tok) == tok = Some("opaque") \/ tok = Some("h.null.s")
ClaimAbsent(tok) == tok = Some("h.{}.s")

\* C6: isTokenExpired() is true when the expiry claim is in the past, false
\* when it is in the future, and true when there is no token, the token
\* cannot be decoded, or the expiry claim is absent.
C6_IsTokenExpired ==
    expiredOut # None =>
        /\ ClaimPast(token, now) => Val(expiredOut) = TRUE
        /\ ClaimFuture(token, now) => Val(expiredOut) = FALSE
        /\ (token = None \/ Undecodable(token) \/ ClaimAbsent(token))
              => Val(expiredOut) = TRUE

\* C6 witness: isTokenExpired() has answered for a token whose non-zero
\* expiry claim lies in the past
C6_Witness ==
    /\ expiredOut = Some(TRUE)
    /\ token = Some(TokenWithExp(1))
    /\ now > 1000

\* C7: the step of the init effect (loading becomes false) leaves the session
\* authenticated exactly when token, user and role were all persisted and the
\* token's expiry claim is in the future, then holding the persisted values;
\* when the persisted token is expired or cannot be decoded, the session is
\* logged out and token, user and role are removed from storage.
C7_InitReload ==
    [][(loading /\ ~loading') =>
          /\ (token' # None /\ user' # None /\ role' # None)
                <=> /\ ls.access_token # None /\ ls.user # None /\ ls.role # None
                    /\ ClaimFuture(ls.access_token, now)
          /\ (token' # None) =>
                /\ token' = ls.access_token /\ role' = ls.role
                /\ JSONstringify(Val(user')) = Val(ls.user)
                /\ ls' = ls
          /\ (ClaimPast(ls.access_token, now) \/ Undecodable(ls.access_token)) =>
                /\ token' = None /\ user' = None /\ role' = None
                /\ ls'.access_token = None /\ ls'.user = None /\ ls'.role = None
      ]_vars

\* C7 witness: the init effect has found an unusable persisted token and
\* logged the session out
C7_Witness ==
    /\ ev.op = "initEffect" /\ ev.call = "logout"
    /\ ~loading /\ token = None /\ ls.access_token = None /\ ls.role = None

\* C8: with loading false and the session not authenticated the guard
\* renders the redirect to /login, whatever allowedRoles and role are.
C8_UnauthenticatedToLogin ==
    (guardOut # None /\ ~loading /\ ~Authenticated) =>
        Val(guardOut) = Navigate("/login")

\* C8 witness: the guard has rendered for a session with a role but no token
\* and an empty allowedRoles
C8_Witness ==
    /\ guardOut # None /\ ~loading
    /\ token = None /\ role = Some("ADMIN") /\ allowedRoles = <<>>

\* landing page of a role label as the claims list them
ClaimLanding(label) ==
    CASE label = "ADMIN" -> "/admin/facilities"
      [] label = "REPORTER" -> "/report"
      [] label = "MONITOR" -> "/dashboard"
      [] OTHER -> "/login"
InList(list, label) == \E i \in DOMAIN list : list[i] = label

\* C9 as stated: an authenticated session whose role is not in allowedRoles
\* is redirected to the role's landing page.
C9_WrongRoleAnyList ==
    (guardOut # None /\ ~loading /\ Authenticated
        /\ ~InList(allowedRoles, toUpperCase(Val(role)))) =>
        Val(guardOut) = Navigate(ClaimLanding(toUpperCase(Val(role))))

\* C9 amended: an authenticated session whose upper-cased role is not in a
\* non-empty allowedRoles is redirected to the role's landing page (REPORTER
\* with [ADMIN] to /report); with an empty allowedRoles the guard renders
\* its content for every authenticated session.
C9_WrongRoleNonEmptyList ==
    /\ (guardOut # None /\ ~loading /\ Authenticated /\ allowedRoles # <<>>
          /\ ~InList(allowedRoles, toUpperCase(Val(role)))) =>
          Val(guardOut) = Navigate(ClaimLanding(toUpperCase(Val(role))))
    /\ (guardOut # None /\ ~loading /\ Authenticated
          /\ role = Some("REPORTER") /\ allowedRoles = <<"ADMIN">>) =>
          Val(guardOut) = Navigate("/report")
    /\ (guardOut # None /\ ~loading /\ Authenticated /\ allowedRoles = <<>>) =>
          Val(guardOut) = Children

\* C9 witness: the guard has rendered for an authenticated REPORTER on a
\* route that allows ADMIN only
C9_Witness ==
    /\ guardOut = Some(Navigate("/report")) /\ ~loading /\ Authenticated
    /\ role = Some("REPORTER") /\ allowedRoles = <<"ADMIN">>

\* the roles each configured route is meant to admit
ClaimAdmits(path) ==
    CASE path = "/admin/facilities" -> {"ADMIN"}
      [] path = "/admin/users" -> {"ADMIN"}
      [] path = "/report" -> {"REPORTER", "ADMIN"}
      [] path = "/dashboard" -> {"MONITOR", "ADMIN"}
      [] OTHER -> {}
ClaimPageOf(path) ==
    CASE path = "/admin/facilities" -> "Facilities"
      [] path = "/admin/users" -> "Users"
      [] path = "/report" -> "ReportForm"
      [] path = "/dashboard" -> "Dashboard"
      [] OTHER -> "Login"
RoutesAsConfigured ==
    (routeOut # None /\ Val(routeOut).kind = "page"
        /\ Val(routeOut).arg # "Login") =>
        /\ Val(routeOut).arg = ClaimPageOf(location)
        /\ ~loading /\ Authenticated
        /\ toUpperCase(Val(role)) \in ClaimAdmits(location)

\* C10 as stated: the guard renders its content only when loading is false,
\* the session is authenticated and the role is in allowedRoles; the
\* configured routes render only for the roles listed for them.
C10_ContentOnlyIfRoleListed ==
    /\ guardOut = Some(Children) =>
          /\ ~loading /\ Authenticated
          /\ InList(allowedRoles, toUpperCase(Val(role)))
    /\ RoutesAsConfigured

\* C10 amended: the guard renders its content only when loading is false,
\* the session is authenticated and allowedRoles is empty or holds the
\* upper-cased role; the configured routes render only for the roles listed
\* for them.
C10_ContentOnlyAfterChecks ==
    /\ guardOut = Some(Children) =>
          /\ ~loading /\ Authenticated
          /\ allowedRoles = <<>> \/ InList(allowedRoles, toUpperCase(Val(role)))
    /\ RoutesAsConfigured

\* C10 witness: the route table has rendered the dashboard page for a
\* MONITOR session
C10_Witness ==
    /\ routeOut = Some(Page("Dashboard")) /\ location = "/dashboard"
    /\ role = Some("MONITOR") /\ Authenticated /\ ~loading

\* C11: while loading is true the guard renders the loading placeholder and
\* no redirect, whatever the session, the role and allowedRoles are; the
\* three outcomes are tested in the order loading, not authenticated, wrong
\* role: a redirect by role is rendered only for an authenticated session
\* after loading, and an unauthenticated one goes to /login even when its
\* role is not listed.
C11_LoadingThenAuthThenRole ==
    guardOut # None =>
        /\ loading => Val(guardOut) = LoadingPlaceholder
        /\ (~loading /\ ~Authenticated) => Val(guardOut) = Navigate("/login")
        /\ (Val(guardOut).kind = "navigate" /\ Val(guardOut).arg # "/login")
              => (~loading /\ Authenticated)

\* C11 witness: the guard has rendered the placeholder while loading for a
\* session without token whose role is not in a non-empty allowedRoles
C11_Witness ==
    /\ guardOut = Some(LoadingPlaceholder) /\ loading
    /\ token = None /\ role = Some("MONITOR")
    /\ Len(allowedRoles) > 0 /\ ~includes(allowedRoles, "MONITOR")

\* C12: a request that has left carries Authorization: Bearer <token> with
\* the value the storage held when it was sent if a token was stored then,
\* and no Authorization header if none was stored then, whatever happened
\* to the storage afterwards.
C12_BearerIffStored ==
    sent # None =>
        LET r == Val(sent) IN
        /\ r.stored # None =>
              r.config.headers.Authorization = Some("Bearer " \o Val(r.stored))
        /\ r.stored = None => r.config.headers.Authorization = None

\* C12 witness: a request left with the header of a token that the storage
\* no longer holds
C12_Witness ==
    /\ sent # None /\ ls.access_token = None
    /\ Val(sent).stored = Some("opaque")
    /\ Val(sent).config.headers.Authorization = Some("Bearer opaque")

\* C13: the three displayed counters (critical, no data, active) sum to the
\* displayed total, and for the list with 2 critical, 1 unreported and 3
\* active facilities they read 2, 1 and 3.
C13_CountersSumToTotal ==
    LET cards == statsCards(Shown) IN
    /\ cards.critical + cards.noData + cards.active = cards.total
    /\ (facilities = ExampleList /\ ~hasActiveFilters(selectedCountry, selectedCity))
          => (cards.critical = 2 /\ cards.noData = 1 /\ cards.active = 3)

\* what C14 says the filtered list is: the facilities, in input order, that
\* match each selection that is made
RECURSIVE ClaimKept(_, _, _)
ClaimKept(list, country, city) ==
    IF list = <<>> THEN <<>>
    ELSE LET f == Head(list)
             keep == /\ (country = "" \/ f.country = country)
                     /\ (city = "" \/ f.city = city)
         IN  (IF keep THEN <<f>> ELSE <<>>) \o ClaimKept(Tail(list), country, city)

\* C14: the filtered list is exactly the facilities whose country equals
\* the selected country (when one is selected) and whose city equals the
\* selected city (when one is selected), in input order; and every change
\* of the selected country, clearing included, leaves no city selected.
C14_FilterByCountryAndCity ==
    /\ [](Shown = ClaimKept(facilities, selectedCountry, selectedCity))
    /\ [][selectedCountry' # selectedCountry => selectedCity' = ""]_vars

\* C14 witness: Kenya then Nairobi are selected in a list that also holds a
\* Nairobi of another country, and one facility is left
C14_Witness ==
    /\ selectedCountry = "Kenya" /\ selectedCity = "Nairobi"
    /\ \E i \in 1..Len(facilities) :
          facilities[i].country = "Uganda" /\ facilities[i].city = "Nairobi"
    /\ Len(Shown) = 1

\* the status C15 gives a facility
ClaimStatus(f) ==
    IF f.icu_beds_available = Some(0) THEN "critical"
    ELSE IF f.last_update = None THEN "no data"
    ELSE "active"
\* the status the code's flag gives a facility
FlagStatus(f) ==
    IF f.critical THEN "critical"
    ELSE IF f.last_update = None THEN "no data"
    ELSE "active"
RowStatus(f) ==
    CASE getStatusColor(f) = "red" -> "critical"
      [] getStatusColor(f) = "yellow" -> "no data"
      [] OTHER -> "active"
ExportedStatus(f) ==
    CASE exportStatus(f) = "CRITICAL" -> "critical"
      [] exportStatus(f) = "No Data" -> "no data"
      [] OTHER -> "active"

Displayed(data) == IF data # None THEN Val(data) ELSE <<>>

\* C16: starting a dashboard fetch leaves every request already in flight
\* in flight (no de-duplication, no cancellation), and the list of a mounted
\* dashboard is always the payload of the successful response handled last,
\* whichever request it answers, the initial empty list before the first.
C16_LastWriteWins ==
    /\ [](dashMounted =>
            facilities = (IF okLog = <<>> THEN <<>>
                          ELSE Displayed(okLog[Len(okLog)].data)))
    /\ [][dashIssued' > dashIssued =>
            /\ dashPending \subseteq dashPending'
            /\ Cardinality(dashPending') = Cardinality(dashPending) + 1]_vars

\* C16 witness: the response to an older request was handled after the
\* response to a newer one and its different payload is on the page
C16_Witness ==
    /\ dashMounted /\ Len(okLog) >= 2
    /\ okLog[Len(okLog)].id < okLog[Len(okLog) - 1].id
    /\ okLog[Len(okLog)].data = Some(ExampleList)
    /\ okLog[Len(okLog) - 1].data = Some(<<Unreported(Mombasa)>>)
    /\ facilities = ExampleList

\* C17: the dashboard starts one fetch when it mounts and one each time 30 s
\* pass while it is mounted, and no other; its timer runs exactly while it
\* is mounted, and no fetch starts at or after the unmount.
C17_FetchOnMountAndTicksOnly ==
    /\ [](dashInterval <=> dashMounted)
    /\ [][/\ (~dashMounted /\ dashMounted') => dashIssued' = dashIssued + 1
          /\ (dashMounted /\ now' = now + RefreshMs) =>
                dashIssued' = dashIssued + 1
          /\ (dashMounted /\ now' = now) => dashIssued' = dashIssued
          /\ (~dashMounted /\ ~dashMounted') => dashIssued' = dashIssued]_vars

\* C17 witness: the dashboard fetched on mount and on a tick, was unmounted,
\* and a minute has passed since without another fetch
C17_Witness ==
    /\ ~dashMounted /\ dashIssued = 2 /\ now = 3 * RefreshMs

\* the submissions of the rendered form that await their response
LiveSubmissions == {r \in formPending : r.live}

C19_ValidationBlocksSubmit ==
    [][(formEv'.op = "submit" /\ HasErrors(validate(formKind, formData))) =>
          /\ formPending' = formPending /\ formSent' = formSent
          /\ ~submitting'
          /\ formErrors' = validate(formKind, formData)
          /\ HasErrors(formErrors')]_vars

\* C19 witness: the user form was submitted for a reporter without a
\* facility: the field error is shown and nothing was sent
C19_Witness ==
    /\ formKind = "user" /\ formEv.op = "submit"
    /\ formData.email = "amy@h.org" /\ formData.password = "Passw0rd!"
    /\ formData.role = "reporter" /\ formData.facility_id = ""
    /\ formErrors.facility_id = Some("Facility is required for reporters")
    /\ formErrors.email = None
    /\ ~submitting /\ formSent = 0

\* the generic banners of the form's page
ClaimGeneric(form) ==
    IF form = "login" THEN {Some(CannotConnect), Some(Unexpected)}
    ELSE {Some(GenericBanner(form))}

\* C20: when a submission of the rendered form fails with anything but a
\* 401, a body {errors} puts its messages on the fields, a body {error}
\* shows exactly that string as the only banner, and any other failure
\* shows a generic banner of the page; the form data is kept and the form
\* stays open.
C20_FailureMappedByShape ==
    [][(formEv'.op = "respondFail" /\ formEv'.live
            /\ Val(formEv'.err).status # 401) =>
          LET err == Val(formEv'.err) IN
          /\ formData' = formData /\ showForm' = showForm /\ formMounted'
          /\ formSuccess' = None
          /\ (err.errors # None /\ err.error = None) =>
                formErrors' = Val(err.errors)
          /\ (err.error # None /\ err.errors = None) =>
                formError' = err.error
          /\ (err.error = None /\ err.errors = None) =>
                formError' \in ClaimGeneric(formKind)]_vars

\* C20 witness: the server rejected the facility's name; the message is on
\* the field, the typed data is still there and the form is open
C20_Witness ==
    /\ formKind = "facility" /\ formEv.op = "respondFail" /\ formEv.live
    /\ Val(formEv.err).status = 422 /\ Val(formEv.err).error = None
    /\ formErrors.name = Some("Rejected by the server")
    /\ formData.name = "Clinic" /\ showForm /\ formError = None

\* C21: a login request that got no response, the server being unreachable
\* or the 10 s timeout having passed, leaves the cannot-reach-server banner
\* on the login page.
C21_NoResponseShowsCannotConnect ==
    (formKind = "login" /\ formEv.op = "respondFail" /\ formEv.live
        /\ Val(formEv.err).status = 0) =>
        formError = Some(CannotConnect)

\* C22: on the facilities, users and report pages a banner is on the screen
\* exactly while a dismiss timer runs, a step that changes the messages
\* restarts or cancels that timer, and every banner that is set is
\* eventually cleared
BannerSet == formSuccess # None \/ formError # None

C22_BannersAutoDismiss ==
    /\ [](BannerSet <=> dismissIn # None)
    /\ [][(formSuccess' # formSuccess \/ formError' # formError) =>
            dismissIn' = IF formSuccess' # None \/ formError' # None
                         THEN Some(DismissMs) ELSE None]_vars
    /\ BannerSet ~> ~BannerSet

\* an error banner of the users page half way through its delay
C22_Witness ==
    /\ formKind = "user" /\ formMounted
    /\ formError # None /\ formSuccess = None
    /\ dismissIn = Some(DismissMs - StepMs)
    /\ formEv.op = "elapse"

\* C23: every user-creation request the form sends carries a facility_id
\* exactly when its role is reporter, and a reporter's request names a
\* facility
C23_FacilityIffReporter ==
    sent # None =>
        LET payload == Val(sent) IN
        /\ "facility_id" \in DOMAIN payload <=> payload.role = Some("reporter")
        /\ payload.role = Some("reporter") => payload.facility_id # None

\* the form has sent a reporter with a facility
C23_Witness ==
    /\ formKind = "user" /\ sent # None /\ formEv.op = "submit"
    /\ Val(sent).role = Some("reporter")
    /\ "facility_id" \in DOMAIN Val(sent)

\* C30: in the user-creation form, whenever the role is not reporter the
\* country, city and facility are empty, and a selected facility is one of
\* the facilities of the selected country and city
C30_SelectionsConsistent ==
    formKind = "user" =>
        /\ formData.role # "reporter" =>
              formData.country = "" /\ formData.city = ""
                 /\ formData.facility_id = ""
        /\ formData.facility_id # "" =>
              \E i \in 1..Len(facilities) :
                 /\ String(facilities[i].id) = formData.facility_id
                 /\ formData.country \in {"", facilities[i].country}
                 /\ formData.city \in {"", facilities[i].city}

\* a facility selected under a country and a city
C30_Witness ==
    /\ formKind = "user" /\ formEv.op = "input"
    /\ formData.country = "Kenya" /\ formData.city = "Mombasa"
    /\ formData.facility_id = "5"

\* C24: the radar set holds the first min(5, n) facilities of the filtered
\* list and the resource list all n of them, both in the order of the list,
\* each with its three resources, a missing one shown as 0
ClaimValue(f, name) ==
    IF name \notin DOMAIN f THEN 0
    ELSE IF f[name] = None THEN 0
    ELSE Val(f[name])

ClaimEntry(entry, f) ==
    /\ entry.icuBeds = ClaimValue(f, "icu_beds_available")
    /\ entry.ventilators = ClaimValue(f, "ventilators_available")
    /\ entry.staff = ClaimValue(f, "staff_on_duty")

C24_RadarFirstFiveInOrder ==
    LET n == Len(Shown)
        radar == radarData(Shown)
        resource == resourceData(Shown)
    IN  /\ Len(radar) = (IF n < 5 THEN n ELSE 5)
        /\ \A i \in 1..Len(radar) : ClaimEntry(radar[i], Shown[i])
        /\ Len(resource) = n
        /\ \A i \in 1..n : ClaimEntry(resource[i], Shown[i])

\* six facilities of Kenya are shown, one of them without ventilators and
\* one without a report
C24_Witness ==
    /\ facilities = ResourceList /\ selectedCountry = "Kenya"
    /\ selectedCity = ""
    /\ Len(Shown) = 6 /\ Len(radarData(Shown)) = 5
    /\ radarData(Shown)[3].ventilators = 0
    /\ resourceData(Shown)[6].staff = 1

\* C25: when the app is opened on / or on an unknown path with a complete,
\* unexpired session in storage, the first effect pass, which ends the
\* initialisation, does not leave the visitor on /login
C25_StoredSessionNotSentToLogin ==
    [][(/\ loading /\ ~loading'
        /\ location \in {"/", "/nowhere"}
        /\ AllStored(ls) /\ StoredTokenFresh(ls, now))
            => location' # "/login"]_vars

\* C26: whatever the storage holds when the app is opened, the
\* initialisation completes: loading eventually becomes false
C26_InitializationCompletes == <>(~loading)

\* C27: with a loaded session of any kind, from any path the redirects of
\* the guard, the home redirect and the catch-all route come to an end on a
\* page that renders without redirecting, and the landing page of each
\* recognised role renders for that role
C27_RedirectsEnd ==
    /\ []((/\ isAuthenticated(token, user, role)
            /\ toUpperCase(Val(role)) \in RoleNames
            /\ location = RoleSwitch(UpperOpt(role), "/login"))
                => View.kind = "page")
    /\ <>[](View.kind = "page")

\* a session with an unrecognised role has been redirected from a protected
\* page and rests on the login page
C27_Witness ==
    /\ ev.op = "redirect" /\ ~loading
    /\ isAuthenticated(token, user, role) /\ role = Some("GUEST")
    /\ location = "/login" /\ View = Page("Login")

\* C28: on the report page a numeric field the reporter has changed since
\* the last successful submission shows the value typed last; the re-fetch
\* that follows the submission does not replace it
C28_RefetchKeepsTyped ==
    formKind = "report" =>
        \A f \in DOMAIN typed :
            typed[f] # None => formData[f] = Val(typed[f])

\* C29: a dashboard fetch that fails leaves the list, the last-refresh time
\* and the selections as they were and sets the error banner; one that
\* succeeds replaces the list and clears the error; either of them ends
\* loading, which stays false while the page is mounted
FetchSettles == \E req \in dashPending :
                    req.live /\ dashPending' = dashPending \ {req}

C29_FailedFetchKeepsList ==
    /\ [][(FetchSettles /\ okLog' = okLog) =>
            /\ facilities' = facilities /\ lastRefresh' = lastRefresh
            /\ selectedCountry' = selectedCountry
            /\ selectedCity' = selectedCity
            /\ dashError' # None /\ ~dashLoading']_vars
    /\ [][(FetchSettles /\ okLog' # okLog) =>
            /\ facilities' = (IF Truthy(okLog'[Len(okLog')].data)
                              THEN Val(okLog'[Len(okLog')].data) ELSE <<>>)
            /\ dashError' = None /\ ~dashLoading']_vars
    /\ [][(dashMounted /\ dashMounted' /\ ~dashLoading) => ~dashLoading']_vars

\* a refresh has failed under a country filter: the list of the earlier
\* refresh is still shown
C29_Witness ==
    /\ dashMounted /\ dashError # None /\ ~dashLoading
    /\ facilities = ExampleList /\ lastRefresh # None
    /\ selectedCountry = "Kenya" /\ selectedCity = "Mombasa"

====
